---- MODULE Spec2Model ----
(***************************************************************************)
(* Model of the Naver SmartStore acquisition-and-extraction pipeline:      *)
(* ProductFetcher (retry loop, status classification), ProductParser       *)
(* (URL decomposition, title extraction, validation) and NaverScraper      *)
(* (scrapeProduct, scrapeMultipleProducts).                                *)
(***************************************************************************)
EXTENDS Integers, Sequences, FiniteSets, TLC

(***************************************************************************)
(* Bounds of the model                                                     *)
(***************************************************************************)
MaxRetries == 2
MaxUrls == 3
MaxPriceElements == 2
MaxImageElements == 3
MaxImages == 3
MaxRequests == 2
MaxCalls == 4
MaxTime == 4
MaxConcurrent == 2

(***************************************************************************)
(* Program constants                                                       *)
(***************************************************************************)
DEFAULT_RETRY_DELAY == 2000
USER_AGENTS_LENGTH == 5
JITTER_RANGE == 2000
SESSION_DELAY == 500
DEFAULT_DELAY_BETWEEN_REQUESTS == 3000
TITLE_LONGER_THAN == 3
TITLE_SHORTER_THAN == 200
VALID_TITLE_MIN == 3
MAX_URL_LENGTH == 2000

(***************************************************************************)
(* Text: a string is a sequence of characters.  The three Hangul           *)
(* syllables of the site suffix are the characters "ne", "i", "beo".       *)
(***************************************************************************)
Rep(ch, n) == [k \in 1..n |-> ch]

IsSpace(ch) == ch = " "

RECURSIVE TrimStart(_)
TrimStart(s) ==
    IF s = <<>> THEN s
    ELSE IF IsSpace(Head(s)) THEN TrimStart(Tail(s)) ELSE s

RECURSIVE TrimEnd(_)
TrimEnd(s) ==
    IF s = <<>> THEN s
    ELSE IF IsSpace(s[Len(s)]) THEN TrimEnd(SubSeq(s, 1, Len(s) - 1)) ELSE s

\* String.prototype.trim
Trim(s) == TrimEnd(TrimStart(s))

\* the regular expression /\s*-\s*NAVER.*$/ matches starting at position p
NaverSuffixAt(s, p) ==
    \E d \in p..Len(s) :
        /\ \A k \in p..(d - 1) : IsSpace(s[k])
        /\ s[d] = "-"
        /\ \E n \in (d + 1)..(Len(s) - 2) :
              /\ \A k \in (d + 1)..(n - 1) : IsSpace(s[k])
              /\ s[n] = "ne" /\ s[n + 1] = "i" /\ s[n + 2] = "beo"

\* title.replace(/\s*-\s*NAVER.*$/, ''): the leftmost match is removed
StripNaverSuffix(s) ==
    LET starts == {p \in 1..Len(s) : NaverSuffixAt(s, p)}
    IN  IF starts = {} THEN s
        ELSE SubSeq(s, 1, (CHOOSE p \in starts : \A q \in starts : p <= q) - 1)

\* a || b || c on strings: the first non-empty one
FirstTruthy(a, b, c) == IF a # <<>> THEN a ELSE IF b # <<>> THEN b ELSE c

(***************************************************************************)
(* URLs.  A URL string is modelled by what new URL(url) makes of it: its   *)
(* protocol, hostname and the parts of pathname.split("/").  A string the  *)
(* URL constructor rejects has no protocol; the empty string has no parts. *)
(***************************************************************************)
MkUrl(protocol, hostname, pathParts) ==
    [protocol |-> protocol, hostname |-> hostname, pathParts |-> pathParts]

UrlEmpty == MkUrl("", "", <<>>)
UrlNotAUrl == MkUrl("", "", <<"not-a-url">>)
UrlProduct == MkUrl("https:", "smartstore.naver.com", <<"", "brand", "products", "123">>)
UrlProductHttp == MkUrl("http:", "smartstore.naver.com", <<"", "shop", "products", "7">>)
UrlFtp == MkUrl("ftp:", "smartstore.naver.com", <<"", "brand", "products", "123">>)
UrlFtpOther == MkUrl("ftp:", "example.com", <<"", "file">>)
UrlOtherHost == MkUrl("https:", "brand.naver.com", <<"", "brand", "products", "123">>)
UrlStoreRoot == MkUrl("https:", "smartstore.naver.com", <<"", "brand">>)
UrlProductsTail == MkUrl("https:", "smartstore.naver.com", <<"", "brand", "products">>)
UrlProductsNoId == MkUrl("https:", "smartstore.naver.com", <<"", "products", "">>)

\* new URL(url) does not throw
UrlParses(url) == url.protocol # ""

\* !url
IsFalsyUrl(url) == url = UrlEmpty

\* pathname.includes("/products/"): some part after the leading slash is
\* "products" and another part (possibly empty) follows it
PathIncludesProducts(pathParts) ==
    \E k \in 2..(Len(pathParts) - 1) : pathParts[k] = "products"

isValidNaverProductUrl(url) ==
    /\ UrlParses(url)
    /\ url.hostname = "smartstore.naver.com"
    /\ PathIncludesProducts(url.pathParts)

\* pathParts.indexOf("products"), 1-based; 0 when absent (JavaScript's -1)
IndexOfProducts(pathParts) ==
    LET hits == {k \in 1..Len(pathParts) : pathParts[k] = "products"}
    IN  IF hits = {} THEN 0 ELSE CHOOSE k \in hits : \A q \in hits : k <= q

\* pathParts[k] with undefined rendered as the empty string (both are falsy)
PartAt(pathParts, k) == IF k \in 1..Len(pathParts) THEN pathParts[k] ELSE ""

(***************************************************************************)
(* Errors                                                                  *)
(***************************************************************************)
NoError == [name |-> "none", statusCode |-> 0, message |-> "", code |-> ""]

\* new AppError(message, statusCode)
AppError(message, statusCode) ==
    [name |-> "AppError", statusCode |-> statusCode, message |-> message, code |-> ""]

\* an error raised by the HTTP transport (axios); message is "timeout" when
\* the error text contains that word and "other" otherwise
AxiosError(code, message) ==
    [name |-> "AxiosError", statusCode |-> 0, message |-> message, code |-> code]

\* an exception of the runtime, not raised by the program's own throw
TypeError(message) ==
    [name |-> "TypeError", statusCode |-> 0, message |-> message, code |-> ""]

IsAppError(e) == e.name = "AppError"
isAxiosError(e) == e.name = "AxiosError"

(***************************************************************************)
(* ProductParser                                                           *)
(***************************************************************************)
\* ProductParser.parseNaverUrl: every failure leaves as AppError 400
parseNaverUrl(url) ==
    LET brandUsername == PartAt(url.pathParts, 2)
        productId == PartAt(url.pathParts, IndexOfProducts(url.pathParts) + 1)
    IN  IF UrlParses(url) /\ brandUsername # "" /\ productId # ""
        THEN [ok |-> TRUE, brandUsername |-> brandUsername, productId |-> productId,
              error |-> NoError]
        ELSE [ok |-> FALSE, brandUsername |-> "", productId |-> "",
              error |-> AppError("Failed to parse Naver URL", 400)]

\* A page, as the title extraction sees it: the texts of the elements the
\* title selectors match, in selector order, and the three fallback sources;
\* such a page has no element a price selector matches and no price meta tag
MkPage(titles, ogTitle, metaTitle, titleTag) ==
    [titles |-> titles, ogTitle |-> ogTitle, metaTitle |-> metaTitle,
     titleTag |-> titleTag, priceTexts |-> <<>>, metaPrice |-> <<>>]

\* title && title.length > 3 && title.length < 200
TitlePlausible(title) ==
    title # <<>> /\ Len(title) > TITLE_LONGER_THAN /\ Len(title) < TITLE_SHORTER_THAN

\* the first selector match whose trimmed text is plausible; 0 when none is
FirstPlausibleTitle(titles) ==
    LET hits == {k \in 1..Len(titles) : TitlePlausible(Trim(titles[k]))}
    IN  IF hits = {} THEN 0 ELSE CHOOSE k \in hits : \A q \in hits : k <= q

\* ProductParser.extractTitle
extractTitle(page) ==
    LET k == FirstPlausibleTitle(page.titles)
        metaTitle == FirstTruthy(page.ogTitle, page.metaTitle, page.titleTag)
    IN  IF k # 0
        THEN [ok |-> TRUE, title |-> Trim(page.titles[k]), error |-> NoError]
        ELSE IF metaTitle # <<>> /\ Trim(metaTitle) # <<>>
        THEN [ok |-> TRUE, title |-> StripNaverSuffix(Trim(metaTitle)), error |-> NoError]
        ELSE [ok |-> FALSE, title |-> <<>>, error |-> AppError("Product title not found", 404)]

(***************************************************************************)
(* ProductParser.extractPrice.  The won sign is the character "won"; the   *)
(* discount words are the syllable pairs "hal" "in", "teuk" "ga" and       *)
(* "se" "il", and the down arrow is the character "down".                  *)
(***************************************************************************)
Digits == <<"0", "1", "2", "3", "4", "5", "6", "7", "8", "9">>

IsDigit(ch) == \E k \in 1..Len(Digits) : Digits[k] = ch

DigitVal(ch) == (CHOOSE k \in 1..Len(Digits) : Digits[k] = ch) - 1

\* a JavaScript number | undefined
Undefined == [kind |-> "undefined", val |-> 0]
NaN == [kind |-> "NaN", val |-> 0]
Num(n) == [kind |-> "number", val |-> n]

\* the truthiness of a number | undefined
Truthy(x) == x.kind = "number" /\ x.val # 0

\* the value of a string of digits
RECURSIVE DigitsValue(_)
DigitsValue(ds) ==
    IF ds = <<>> THEN 0
    ELSE DigitsValue(SubSeq(ds, 1, Len(ds) - 1)) * 10 + DigitVal(ds[Len(ds)])

\* the length of the longest prefix of s made of digits
DigitPrefixLength(s) ==
    CHOOSE n \in 0..Len(s) :
        /\ \A k \in 1..n : IsDigit(s[k])
        /\ n = Len(s) \/ ~IsDigit(s[n + 1])

\* parseInt(str) for an unsigned string: leading white space is skipped and
\* the digits that follow are read; NaN when there are none
parseInt(str) ==
    LET t == TrimStart(str)
        n == DigitPrefixLength(t)
    IN  IF n = 0 THEN NaN ELSE Num(DigitsValue(SubSeq(t, 1, n)))

\* match.replace(/[^\d]/g, "")
DigitsOnly(match) == SelectSeq(match, IsDigit)

\* [\d,]
IsPriceChar(ch) == IsDigit(ch) \/ ch = ","

\* the length of the longest prefix of s matched by [\d,]+
PriceCharPrefixLength(s) ==
    CHOOSE n \in 0..Len(s) :
        /\ \A k \in 1..n : IsPriceChar(s[k])
        /\ n = Len(s) \/ ~IsPriceChar(s[n + 1])

\* text.match(/[\d,]+won?/g): the matches from left to right
RECURSIVE PriceMatches(_)
PriceMatches(text) ==
    IF text = <<>> THEN <<>>
    ELSE IF ~IsPriceChar(Head(text)) THEN PriceMatches(Tail(text))
    ELSE LET n == PriceCharPrefixLength(text)
             m == IF n < Len(text) /\ text[n + 1] = "won" THEN n + 1 ELSE n
         IN  <<SubSeq(text, 1, m)>> \o PriceMatches(SubSeq(text, m + 1, Len(text)))

\* text.includes(part)
Includes(text, part) ==
    \E p \in 1..(Len(text) - Len(part) + 1) : SubSeq(text, p, p + Len(part) - 1) = part

\* the context test of extractPrice: the text holds one of the discount words
IsDiscountText(text) ==
    \/ Includes(text, <<"hal", "in">>)
    \/ Includes(text, <<"teuk", "ga">>)
    \/ Includes(text, <<"se", "il">>)
    \/ Includes(text, <<"down">>)

\* if (!discountedPrice || priceValue < discountedPrice) discountedPrice = priceValue
KeepLatest(discountedPrice, priceValue) == Num(priceValue)
KeepSmallest(discountedPrice, priceValue) ==
    IF ~Truthy(discountedPrice) \/ priceValue < discountedPrice.val
    THEN Num(priceValue) ELSE discountedPrice

\* one match of one element: the body of priceMatches.forEach
PriceMatchStep(acc, text, match) ==
    LET priceValue == parseInt(DigitsOnly(match))
    IN  IF priceValue.kind = "number" /\ priceValue.val > 0
        THEN [foundPrices |-> Append(acc.foundPrices, priceValue.val),
              formattedPrice |-> IF acc.formattedPrice = <<>> THEN match
                                 ELSE acc.formattedPrice,
              discountedPrice |-> IF IsDiscountText(text)
                                  THEN KeepSmallest(acc.discountedPrice, priceValue.val)
                                  ELSE acc.discountedPrice]
        ELSE acc

RECURSIVE PriceMatchesStep(_, _, _)
PriceMatchesStep(acc, text, matches) ==
    IF matches = <<>> THEN acc
    ELSE PriceMatchesStep(PriceMatchStep(acc, text, Head(matches)), text, Tail(matches))

\* the elements the price selectors find, in the order they are visited:
\* the body of priceElements.each for each of them
RECURSIVE PriceElementsStep(_, _)
PriceElementsStep(acc, elements) ==
    IF elements = <<>> THEN acc
    ELSE LET text == Trim(Head(elements))
         IN  PriceElementsStep(PriceMatchesStep(acc, text, PriceMatches(text)), Tail(elements))

\* foundPrices.sort((a, b) => b - a)
RECURSIVE SortAscending(_)
SortAscending(xs) ==
    IF xs = <<>> THEN <<>>
    ELSE LET k == CHOOSE j \in 1..Len(xs) : \A q \in 1..Len(xs) : xs[j] <= xs[q]
         IN  <<xs[k]>> \o SortAscending(SubSeq(xs, 1, k - 1) \o SubSeq(xs, k + 1, Len(xs)))

RECURSIVE SortDescending(_)
SortDescending(xs) ==
    IF xs = <<>> THEN <<>>
    ELSE LET k == CHOOSE j \in 1..Len(xs) : \A q \in 1..Len(xs) : xs[j] >= xs[q]
         IN  <<xs[k]>> \o SortDescending(SubSeq(xs, 1, k - 1) \o SubSeq(xs, k + 1, Len(xs)))

\* lowest < originalPrice * 0.9
SignificantlyLowerOrEqual(lowest, originalPrice) == lowest * 10 <= originalPrice * 9
SignificantlyLower(lowest, originalPrice) == lowest * 10 < originalPrice * 9

\* n.toLocaleString(): the digits in groups of three
RECURSIVE GroupDigits(_)
GroupDigits(n) ==
    IF n < 1000 THEN IF n < 10 THEN <<Digits[n + 1]>>
                     ELSE GroupDigits(n \div 10) \o <<Digits[(n % 10) + 1]>>
    ELSE GroupDigits(n \div 1000) \o <<",">>
         \o <<Digits[((n \div 100) % 10) + 1], Digits[((n \div 10) % 10) + 1],
              Digits[(n % 10) + 1]>>

toLocaleString(x) == IF x.kind = "NaN" THEN <<"N", "a", "N">> ELSE GroupDigits(x.val)

\* the text shown when there is no price at all
NoPriceText == <<"no price">>

\* a page as extractPrice reads it: the texts of the elements the price
\* selectors find, and the content of the product:price:amount meta tag
MkPricePage(priceTexts, metaPrice) == [priceTexts |-> priceTexts, metaPrice |-> metaPrice]

\* ProductParser.extractPrice
extractPrice(page) ==
    LET scanned == PriceElementsStep(
                       [foundPrices |-> <<>>, formattedPrice |-> <<>>,
                        discountedPrice |-> Undefined], page.priceTexts)
        foundPrices == SortDescending(scanned.foundPrices)
        fromPage == IF foundPrices # <<>> THEN Num(foundPrices[1]) ELSE Undefined
        discountedPrice ==
            IF Len(foundPrices) <= 1 \/ Truthy(scanned.discountedPrice)
            THEN scanned.discountedPrice
            ELSE IF SignificantlyLower(foundPrices[Len(foundPrices)], foundPrices[1])
            THEN Num(foundPrices[Len(foundPrices)])
            ELSE scanned.discountedPrice
        useMeta == ~Truthy(fromPage) /\ page.metaPrice # <<>>
        originalPrice == IF useMeta THEN parseInt(page.metaPrice) ELSE fromPage
        formattedPrice == IF useMeta THEN toLocaleString(originalPrice) \o <<"won">>
                          ELSE scanned.formattedPrice
    IN  [original |-> originalPrice,
         discounted |-> discountedPrice,
         currency |-> "KRW",
         formatted |-> IF formattedPrice # <<>> THEN formattedPrice
                       ELSE IF Truthy(originalPrice)
                       THEN toLocaleString(originalPrice) \o <<"won">>
                       ELSE NoPriceText]

\* the same page with elements the price selectors match and a price meta tag
WithPrice(page, priceTexts, metaPrice) ==
    [page EXCEPT !.priceTexts = priceTexts, !.metaPrice = metaPrice]

NoProduct ==
    [title |-> <<>>,
     price |-> [original |-> Undefined, discounted |-> Undefined, currency |-> "KRW",
                formatted |-> <<>>],
     productId |-> "", url |-> UrlEmpty]

\* ProductParser.parseProductData, restricted to the fields the checked
\* properties read (title, price, productId, url)
parseProductData(page, url) ==
    LET parsed == parseNaverUrl(url)
        t == extractTitle(page)
    IN  IF ~parsed.ok THEN [ok |-> FALSE, data |-> NoProduct, error |-> parsed.error]
        ELSE IF ~t.ok THEN [ok |-> FALSE, data |-> NoProduct, error |-> t.error]
        ELSE [ok |-> TRUE,
              data |-> [title |-> t.title, price |-> extractPrice(page),
                        productId |-> parsed.productId, url |-> url],
              error |-> NoError]

\* ProductParser.validateProductData: the error it throws, or NoError
validateProductData(data) ==
    IF data.title = <<>> \/ Len(data.title) < VALID_TITLE_MIN
    THEN AppError("Invalid product title", 400)
    ELSE NoError

\* ProductParser.validateProductData: the warnings about the price it logs
\* when it does not throw (!data.price.formatted)
validateProductDataWarnings(data) ==
    IF data.price.formatted = <<>> THEN <<"No price information found">> ELSE <<>>

(***************************************************************************)
(* ProductParser.extractImages                                             *)
(***************************************************************************)
UpperCaseLetters == <<"A", "B", "C", "D", "E", "F", "G", "H", "I", "J", "K", "L", "M">>
                    \o <<"N", "O", "P", "Q", "R", "S", "T", "U", "V", "W", "X", "Y", "Z">>
LowerCaseLetters == <<"a", "b", "c", "d", "e", "f", "g", "h", "i", "j", "k", "l", "m">>
                    \o <<"n", "o", "p", "q", "r", "s", "t", "u", "v", "w", "x", "y", "z">>

\* the lower-case form of a character
ToLowerChar(ch) ==
    IF \E k \in 1..Len(UpperCaseLetters) : UpperCaseLetters[k] = ch
    THEN LowerCaseLetters[CHOOSE k \in 1..Len(UpperCaseLetters) : UpperCaseLetters[k] = ch]
    ELSE ch

toLowerCase(str) == [k \in 1..Len(str) |-> ToLowerChar(str[k])]

\* str.startsWith(prefix)
StartsWith(str, prefix) ==
    Len(str) >= Len(prefix) /\ SubSeq(str, 1, Len(prefix)) = prefix

ImageExtensions ==
    { <<"j", "p", "g">>, <<"j", "p", "e", "g">>, <<"p", "n", "g">>,
      <<"g", "i", "f">>, <<"w", "e", "b", "p">> }

\* /\.(jpg|jpeg|png|gif|webp)($|\?)/i.test(url)
MatchesImageExtension(url) ==
    LET u == toLowerCase(url)
    IN  \E ext \in ImageExtensions : \E p \in 1..Len(u) :
           /\ p + Len(ext) <= Len(u)
           /\ SubSeq(u, p, p + Len(ext)) = <<".">> \o ext
           /\ p + Len(ext) = Len(u) \/ u[p + Len(ext) + 1] = "?"

LowQualityWords ==
    { <<"t", "h", "u", "m", "b">>, <<"i", "c", "o", "n">>, <<"l", "o", "g", "o">>,
      <<"b", "a", "n", "n", "e", "r">>, <<"_", "s", "m", "a", "l", "l">>,
      <<"_", "s", ".">>, <<"4", "0", "x", "4", "0">>, <<"5", "0", "x", "5", "0">>,
      <<"1", "0", "0", "x", "1", "0", "0">> }

\* ProductParser.isValidImageUrl
isValidImageUrl(url) ==
    /\ StartsWith(url, <<"h", "t", "t", "p">>) \/ StartsWith(url, <<"/", "/">>)
    /\ MatchesImageExtension(url)

\* ProductParser.isLowQualityImage
isLowQualityImage(url) == \E word \in LowQualityWords : Includes(toLowerCase(url), word)

\* src.startsWith('//') ? `https:${src}` : src
ResolveImageUrl(src) ==
    IF StartsWith(src, <<"/", "/">>) THEN <<"h", "t", "t", "p", "s", ":">> \o src ELSE src

\* images.includes(fullUrl)
ListIncludes(images, fullUrl) == \E k \in 1..Len(images) : images[k] = fullUrl

\* images.length >= maxImages
CapReachedLate(length, maxImages) == length > maxImages
CapReached(length, maxImages) == length >= maxImages

\* an img element: its src, data-src and data-original attributes
MkImage(src, dataSrc, dataOriginal) ==
    [src |-> src, dataSrc |-> dataSrc, dataOriginal |-> dataOriginal]

\* the body of $(selector).each for one element
ImageStep(images, element) ==
    LET src == FirstTruthy(element.src, element.dataSrc, element.dataOriginal)
        fullUrl == ResolveImageUrl(src)
    IN  IF src # <<>> /\ isValidImageUrl(src)
           /\ ~ListIncludes(images, fullUrl) /\ ~isLowQualityImage(fullUrl)
        THEN Append(images, fullUrl)
        ELSE images

\* the loops over the selectors and their elements, the elements taken in
\* the order they are visited; both loops end once the cap is reached
RECURSIVE ImagesStep(_, _, _)
ImagesStep(images, elements, maxImages) ==
    IF elements = <<>> \/ CapReached(Len(images), maxImages) THEN images
    ELSE ImagesStep(ImageStep(images, Head(elements)), Tail(elements), maxImages)

\* ProductParser.extractImages
extractImages(page, maxImages) == ImagesStep(<<>>, page.imageElements, maxImages)

(***************************************************************************)
(* utils/validation.ts: validateProductUrl works on the URL string         *)
(***************************************************************************)
IsLetter(ch) ==
    \E k \in 1..Len(LowerCaseLetters) : LowerCaseLetters[k] = ToLowerChar(ch)

\* where part first occurs in str at or after position from (0: nowhere)
IndexOf(str, part, from) ==
    LET at == {p \in from..(Len(str) - Len(part) + 1) : SubSeq(str, p, p + Len(part) - 1) = part}
    IN  IF at = {} THEN 0 ELSE CHOOSE p \in at : \A q \in at : p <= q

\* the part of a URL string between "://" and the path, query or fragment
Authority(str) ==
    LET from == IndexOf(str, <<":", "/", "/">>, 1) + 3
        ends == {p \in from..Len(str) : str[p] \in {"/", "?", "#"}}
        to == IF ends = {} THEN Len(str) ELSE (CHOOSE p \in ends : \A q \in ends : p <= q) - 1
    IN  SubSeq(str, from, to)

\* new URL(str) does not throw: str starts with a scheme and, the scheme
\* being followed by "//", names a host
UrlConstructorAccepts(str) ==
    LET colon == IndexOf(str, <<":">>, 1)
    IN  /\ colon > 1
        /\ \A k \in 1..(colon - 1) : IsLetter(str[k])
        /\ IndexOf(str, <<":", "/", "/">>, 1) = colon => Authority(str) # <<>>

\* new URL(str).hostname: the authority without user information and
\* port, in lower case
UrlHostname(str) ==
    LET authority == Authority(str)
        ats == {p \in 1..Len(authority) : authority[p] = "@"}
        host == IF ats = {} THEN authority
                ELSE SubSeq(authority, (CHOOSE p \in ats : \A q \in ats : p >= q) + 1,
                            Len(authority))
        port == IndexOf(host, <<":">>, 1)
    IN  toLowerCase(IF port = 0 THEN host ELSE SubSeq(host, 1, port - 1))

\* /^https?:\/\/smartstore\.naver\.com/i.test(str)
naverSmartstorePattern(str) ==
    \/ StartsWith(toLowerCase(str), <<"h", "t", "t", "p", "s", ":", "/", "/", "s", "m", "a", "r", "t", "s", "t", "o", "r", "e", ".", "n", "a", "v", "e", "r", ".", "c", "o", "m">>)
    \/ StartsWith(toLowerCase(str), <<"h", "t", "t", "p", ":", "/", "/", "s", "m", "a", "r", "t", "s", "t", "o", "r", "e", ".", "n", "a", "v", "e", "r", ".", "c", "o", "m">>)

\* part occurs in str and a digit follows it
FollowedByDigit(str, part) ==
    \E p \in 1..(Len(str) - Len(part)) :
        SubSeq(str, p, p + Len(part) - 1) = part /\ IsDigit(str[p + Len(part)])

\* /\/\d+(?:\?|$)/i.test(str): a slash, digits, then the end or a "?"
SlashDigitsEnd(str) ==
    \E p \in 1..Len(str) : \E q \in (p + 1)..Len(str) :
        /\ str[p] = "/"
        /\ \A k \in (p + 1)..q : IsDigit(str[k])
        /\ q = Len(str) \/ str[q + 1] = "?"

\* productUrlPatterns.some(pattern => pattern.test(str))
hasProductInfo(str) ==
    \/ FollowedByDigit(toLowerCase(str), <<"/", "p", "r", "o", "d", "u", "c", "t", "s", "/">>)
    \/ SlashDigitsEnd(str)
    \/ FollowedByDigit(toLowerCase(str), <<"p", "r", "o", "d", "u", "c", "t", "_", "n", "o", "=">>)

Invalid(error) == [isValid |-> FALSE, error |-> error]
Valid == [isValid |-> TRUE, error |-> ""]

\* validateProductUrl(url) for a string url
validateProductUrl(url) ==
    LET trimmedUrl == Trim(url)
    IN  IF url = <<>> THEN Invalid("URL is required and must be a string")
        ELSE IF trimmedUrl = <<>> THEN Invalid("URL cannot be empty")
        ELSE IF ~UrlConstructorAccepts(trimmedUrl) THEN Invalid("Invalid URL format")
        ELSE IF ~naverSmartstorePattern(trimmedUrl)
        THEN Invalid("URL must be from Naver Smartstore (smartstore.naver.com)")
        ELSE IF ~hasProductInfo(trimmedUrl)
        THEN Invalid("URL must contain a valid product identifier")
        ELSE IF Len(trimmedUrl) > MAX_URL_LENGTH
        THEN Invalid("URL is too long (maximum 2000 characters)")
        ELSE Valid

(***************************************************************************)
(* Pages and transport outcomes the endpoint is drawn from                 *)
(***************************************************************************)
NoPage == MkPage(<<>>, <<>>, <<>>, <<>>)
NaverSuffix == <<" ", "-", " ", "ne", "i", "beo", "s">>

Pages ==
    { MkPage(<<Rep("a", 4)>>, <<>>, <<>>, <<>>),
      MkPage(<<Rep("a", 3), <<" ", "a", "b", " ">>, Rep("b", 199)>>, <<>>, <<>>, <<>>),
      MkPage(<<Rep("a", 200)>>, <<>>, <<>>, <<>>),
      MkPage(<<>>, Rep("c", 3), <<>>, <<>>),
      MkPage(<<Rep("a", 3)>>, <<>>, Rep("c", 2), <<>>),
      MkPage(<<>>, <<>>, <<>>, Rep("c", 200)),
      MkPage(<<>>, Rep("d", 5) \o NaverSuffix, <<>>, <<>>),
      MkPage(<<>>, NaverSuffix, <<>>, <<>>),
      MkPage(<<>>, <<" ", " ">>, <<>>, Rep("e", 4)),
      WithPrice(MkPage(<<Rep("a", 4)>>, <<>>, <<>>, <<>>),
                <<<<"1", "2", ",", "0", "0", "0", "won">>>>, <<>>),
      NoPage }

Statuses == {200, 400, 401, 403, 404, 429, 500, 503}

\* a response the server sent: its status, whether its content-type
\* includes text/html, and its body; body tells what response.data is:
\* "text" for the body string, and, because the transport parses a body
\* that is valid JSON, "array" for a parsed array and "object" for any
\* other parsed value
HttpResponse(status, html, page) ==
    [kind |-> "response", status |-> status, html |-> html, page |-> page,
     body |-> "text", code |-> "", message |-> ""]

\* a 200 text/html response whose body text is valid JSON
JsonResponse(body) == [HttpResponse(200, TRUE, NoPage) EXCEPT !.body = body]

\* a request that ended without a response
TransportError(code, message) ==
    [kind |-> "error", status |-> 0, html |-> FALSE, page |-> NoPage,
     body |-> "text", code |-> code, message |-> message]

Responses ==
    {HttpResponse(200, TRUE, p) : p \in Pages}
    \cup {HttpResponse(200, FALSE, NoPage)}
    \cup {JsonResponse("object"), JsonResponse("array")}
    \cup {HttpResponse(st, TRUE, NoPage) : st \in Statuses \ {200}}
    \cup {TransportError("ENOTFOUND", "other"), TransportError("ECONNREFUSED", "other"),
          TransportError("ETIMEDOUT", "other"), TransportError("ECONNABORTED", "timeout"),
          TransportError("ECONNRESET", "other")}

\* what axiosInstance.get(url) can end with: a URL whose protocol the
\* transport does not speak is rejected before anything is sent
Transport(url, served) ==
    IF url.protocol \in {"http:", "https:"} THEN served
    ELSE {TransportError("ERR_BAD_REQUEST", "other")}

\* the request reaches the network
OnWire(url) == url.protocol \in {"http:", "https:"}

(***************************************************************************)
(* ProductFetcher                                                          *)
(***************************************************************************)
\* validateStatus of the axios instance: other statuses reject the request
validateStatus(status) == status < 500

\* ProductFetcher.handleHttpStatus: the error it throws, or NoError
handleHttpStatus(status) ==
    CASE status = 429 -> AppError("Too many requests - rate limited by server", 429)
      [] status = 404 -> AppError("Product not found", 404)
      [] status = 403 -> AppError("Access forbidden - possible bot detection", 403)
      [] status = 503 -> AppError("Service unavailable", 503)
      [] OTHER -> IF status >= 400 THEN AppError("HTTP error", status) ELSE NoError

\* the try block of one attempt, from the settled request on: the error
\* thrown into the catch block, or NoError when the attempt returns
TryOutcome(resp) ==
    IF resp.kind = "error" THEN AxiosError(resp.code, resp.message)
    ELSE IF ~validateStatus(resp.status) THEN AxiosError("ERR_BAD_RESPONSE", "other")
    ELSE IF handleHttpStatus(resp.status) # NoError THEN handleHttpStatus(resp.status)
    ELSE IF ~resp.html THEN AppError("Response is not HTML content", 400)
    ELSE IF resp.body = "object" THEN TypeError("content.includes is not a function")
    ELSE NoError

\* for (...; attempt <= retries + 1; ...)
LoopTestOffByOne(attempt, retries) == attempt <= retries
LoopTest(attempt, retries) == attempt <= retries + 1

\* statusCode === 404 || statusCode === 400
IsClientErrorOnly404(statusCode) == statusCode = 404
IsClientError(statusCode) == statusCode \in {404, 400}

\* attempt <= retries
AttemptsRemainAlways(attempt, retries) == TRUE
AttemptsRemain(attempt, retries) == attempt <= retries

\* attempt > retries
AttemptsExhausted(attempt, retries) == attempt > retries

\* error.code === 'ECONNREFUSED'
IsConnectionRefusedRetried(error) == FALSE
IsConnectionRefused(error) == error.code = "ECONNREFUSED"

\* error.code === 'ETIMEDOUT' || error.message?.includes('timeout')
IsTimeout(error) == error.code = "ETIMEDOUT" \/ error.message = "timeout"

\* the catch block of one attempt: what the loop does next and, when it
\* throws, the error thrown
CatchOutcome(error, attempt, retries) ==
    IF IsAppError(error) /\ IsClientError(error.statusCode)
    THEN [do |-> "throw", error |-> error]
    ELSE IF IsAppError(error) /\ error.statusCode = 429 /\ AttemptsRemain(attempt, retries)
    THEN [do |-> "rateLimitDelay", error |-> NoError]
    ELSE IF isAxiosError(error) /\ error.code = "ENOTFOUND"
    THEN [do |-> "throw", error |-> AppError("Product page not found", 404)]
    ELSE IF isAxiosError(error) /\ IsConnectionRefused(error)
    THEN [do |-> "throw", error |-> AppError("Connection refused by server", 503)]
    ELSE IF isAxiosError(error) /\ IsTimeout(error)
    THEN IF AttemptsExhausted(attempt, retries)
         THEN [do |-> "throw",
               error |-> AppError("Request timeout while fetching product page", 408)]
         ELSE [do |-> "continue", error |-> NoError]
    ELSE IF AttemptsExhausted(attempt, retries)
    THEN [do |-> "break", error |-> NoError]
    ELSE [do |-> "continue", error |-> NoError]

\* after the loop: the error fetchProductPage throws
ExhaustedError(lastError) ==
    IF IsAppError(lastError) THEN lastError
    ELSE AppError("Failed to fetch product page after multiple attempts", 500)

\* the duration addRandomDelay(baseDelay) sleeps, for a jitter in [0, 2000)
addRandomDelayNoBase(baseDelay, jitter) == jitter
addRandomDelay(baseDelay, jitter) == baseDelay + jitter

\* retryDelay * attempt, the base delay before an attempt after the first
BackoffDelay(retryDelay, attempt) == retryDelay * attempt

\* retryDelay * attempt * 2, the base delay after a 429
RateLimitDelayNotDoubled(retryDelay, attempt) == retryDelay * attempt
RateLimitDelay(retryDelay, attempt) == retryDelay * attempt * 2

\* ProductFetcher.USER_AGENTS, each identity by a short name, and the
\* identity a caller passes in options.userAgent
USER_AGENTS == <<"ua0", "ua1", "ua2", "ua3", "ua4">>
CallerUserAgent == "caller"

\* getNextUserAgent: the cursor after one selection
NextUserAgentIndexNoWrap(index) == index + 1
NextUserAgentIndex(index) == (index + 1) % USER_AGENTS_LENGTH

\* generateBrowserHeaders(userAgent): the cursor after the headers are built
CursorAfterHeadersLost(index, explicitUserAgent) == index
CursorAfterHeaders(index, explicitUserAgent) ==
    IF explicitUserAgent THEN index ELSE NextUserAgentIndex(index)

\* generateBrowserHeaders(userAgent): the User-Agent header,
\* userAgent || this.getNextUserAgent()
SelectedUserAgent(index, explicitUserAgent) ==
    IF explicitUserAgent THEN CallerUserAgent ELSE USER_AGENTS[index + 1]

(***************************************************************************)
(* State                                                                   *)
(***************************************************************************)
VARIABLES
    arg,        \* the argument of a parser or validator function applied on its own
    result,     \* what that application returned
    limiter,    \* a RateLimitValidator, the clock and what its calls returned
    entry,      \* the operation the caller invoked: "fetch", "scrape", "batch", ...
    opts,       \* the options of that invocation
    endpoint,   \* the outcomes the server and the network can produce in this run
    calls,      \* one record per scrapeProduct / fetchProductPage invocation
    currentUserAgentIndex,  \* ProductFetcher.currentUserAgentIndex
    urls,       \* scrapeMultipleProducts: the input list
    bpc,        \* scrapeMultipleProducts: position in the loop
    i,          \* scrapeMultipleProducts: loop index (1-based)
    success,    \* scrapeMultipleProducts: success[]
    failed,     \* scrapeMultipleProducts: failed[]
    itemStatus, \* per input entry: 0 untouched, -1 skipped, 200 scraped, else the error status
    delayBefore,  \* per input entry: what the batch slept between the previous scrape and this one
    pendingDelay  \* what the batch slept since the last scrape ended

vars == <<arg, result, limiter, entry, opts, endpoint, calls, currentUserAgentIndex, urls, bpc,
          i, success, failed, itemStatus, delayBefore, pendingDelay>>

unitVars == <<arg, result, limiter>>

batchVars == <<urls, bpc, i, success, failed, itemStatus, delayBefore, pendingDelay>>

CallIds == 1..MaxUrls

IdleCall ==
    [pc |-> "idle", url |-> UrlEmpty, attempt |-> 0, lastError |-> NoError,
     gets |-> 0, wire |-> 0, sleeps |-> 0, slept |-> 0, baseSlept |-> 0,
     sessionGets |-> 0, sessionSlept |-> 0,
     lastResp |-> TransportError("", ""), onlyRetryable |-> TRUE, onlyRefused |-> TRUE,
     classified |-> NoError, scrapes |-> 0, fetches |-> 0, warnings |-> <<>>,
     agent |-> "",
     data |-> NoPage, product |-> NoProduct, error |-> NoError]

\* a fresh invocation on url, entering at pc
NewCall(pc, url) == [IdleCall EXCEPT !.pc = pc, !.url = url]

Jitters == {0, JITTER_RANGE - 1}
RetryDelays == {0, 500, DEFAULT_RETRY_DELAY}

\* the claim's notion of a retryable failure: 429, 403, any status >= 500, a timeout
IsRetryableFailure(resp) ==
    \/ resp.kind = "response" /\ (resp.status \in {429, 403} \/ resp.status >= 500)
    \/ resp.kind = "error" /\ (resp.code = "ETIMEDOUT" \/ resp.message = "timeout")

\* the failure kind the fetcher names for one outcome: the error of
\* handleHttpStatus for a response it handles (429 RateLimited, 403
\* Forbidden, ...), Timeout (408) for a timeout; NoError for an outcome it
\* has no name for (a status >= 500, a reset connection) and for success
Classification(resp) ==
    IF resp.kind = "response" /\ validateStatus(resp.status)
    THEN handleHttpStatus(resp.status)
    ELSE IF resp.kind = "error" /\ IsTimeout(resp)
    THEN AppError("Request timeout while fetching product page", 408)
    ELSE NoError

Set(c, rec) == calls' = [calls EXCEPT ![c] = rec]

(***************************************************************************)
(* ProductFetcher.fetchProductPage, one action per stretch between awaits  *)
(***************************************************************************)
\* entry of fetchProductPage: the URL check, then the first loop test
FetchStart(c) ==
    /\ calls[c].pc = "fetch"
    /\ IF ~isValidNaverProductUrl(calls[c].url)
       THEN Set(c, [calls[c] EXCEPT !.pc = "fetchThrown", !.fetches = @ + 1,
                       !.error = AppError("Invalid Naver SmartStore product URL", 400)])
       ELSE Set(c, [calls[c] EXCEPT !.pc = "loop", !.fetches = @ + 1, !.attempt = 1,
                       !.lastError = NoError])
    /\ UNCHANGED <<unitVars, entry, opts, endpoint, currentUserAgentIndex, batchVars>>

\* the loop test and the start of the try block
FetchLoop(c) ==
    /\ calls[c].pc = "loop"
    /\ IF LoopTest(calls[c].attempt, opts.retries)
       THEN Set(c, [calls[c] EXCEPT !.pc = IF calls[c].attempt > 1 THEN "backoff" ELSE "get"])
       ELSE Set(c, [calls[c] EXCEPT !.pc = "fetchThrown",
                       !.error = ExhaustedError(calls[c].lastError)])
    /\ UNCHANGED <<unitVars, entry, opts, endpoint, currentUserAgentIndex, batchVars>>

\* await this.addRandomDelay(retryDelay * attempt)
FetchBackoff(c) ==
    /\ calls[c].pc = "backoff"
    /\ \E jitter \in Jitters :
          LET baseDelay == BackoffDelay(opts.retryDelay, calls[c].attempt)
          IN  Set(c, [calls[c] EXCEPT !.pc = "get", !.sleeps = @ + 1,
                         !.baseSlept = @ + baseDelay,
                         !.slept = @ + addRandomDelay(baseDelay, jitter)])
    /\ UNCHANGED <<unitVars, entry, opts, endpoint, currentUserAgentIndex, batchVars>>

\* generateBrowserHeaders(userAgent) and axiosInstance.get(url, ...)
FetchGet(c) ==
    /\ calls[c].pc = "get"
    /\ currentUserAgentIndex' = CursorAfterHeaders(currentUserAgentIndex, opts.userAgent)
    /\ Set(c, [calls[c] EXCEPT !.pc = "inflight", !.gets = @ + 1, !.slept = 0,
                  !.baseSlept = 0,
                  !.agent = SelectedUserAgent(currentUserAgentIndex, opts.userAgent),
                  !.wire = IF OnWire(calls[c].url) THEN @ + 1 ELSE @])
    /\ UNCHANGED <<unitVars, entry, opts, endpoint, batchVars>>

\* the request settles: the rest of the try block and the catch block
FetchSettle(c) ==
    /\ calls[c].pc = "inflight"
    /\ \E resp \in Transport(calls[c].url, endpoint) :
          LET error == TryOutcome(resp)
              caught == CatchOutcome(error, calls[c].attempt, opts.retries)
              seen == [calls[c] EXCEPT !.lastResp = resp,
                          !.onlyRetryable = @ /\ IsRetryableFailure(resp),
                          !.onlyRefused = @ /\ resp.code = "ECONNREFUSED",
                          !.classified = IF Classification(resp) # NoError
                                         THEN Classification(resp) ELSE @]
          IN  IF error = NoError
              THEN Set(c, [seen EXCEPT !.pc = "fetchReturned", !.data = resp.page])
              ELSE CASE caught.do = "throw" ->
                          Set(c, [seen EXCEPT !.pc = "fetchThrown", !.lastError = error,
                                     !.error = caught.error])
                     [] caught.do = "rateLimitDelay" ->
                          Set(c, [seen EXCEPT !.pc = "rateLimited", !.lastError = error])
                     [] caught.do = "continue" ->
                          Set(c, [seen EXCEPT !.pc = "loop", !.lastError = error,
                                     !.attempt = @ + 1])
                     [] caught.do = "break" ->
                          Set(c, [seen EXCEPT !.pc = "fetchThrown", !.lastError = error,
                                     !.error = ExhaustedError(error)])
    /\ UNCHANGED <<unitVars, entry, opts, endpoint, currentUserAgentIndex, batchVars>>

\* await this.addRandomDelay(retryDelay * attempt * 2); continue
FetchRateLimitDelay(c) ==
    /\ calls[c].pc = "rateLimited"
    /\ \E jitter \in Jitters :
          LET baseDelay == RateLimitDelay(opts.retryDelay, calls[c].attempt)
          IN  Set(c, [calls[c] EXCEPT !.pc = "loop", !.attempt = @ + 1, !.sleeps = @ + 1,
                         !.baseSlept = @ + baseDelay,
                         !.slept = @ + addRandomDelay(baseDelay, jitter)])
    /\ UNCHANGED <<unitVars, entry, opts, endpoint, currentUserAgentIndex, batchVars>>

(***************************************************************************)
(* NaverScraper.scrapeProduct                                              *)
(***************************************************************************)
\* the catch block of scrapeProduct: the error that leaves it
ScrapeCatchRethrowsAll(error) == error
ScrapeCatch(error) ==
    IF IsAppError(error) THEN error ELSE AppError("Failed to scrape product data", 500)

\* isContentBlocked(fetchResult.data): its result is only logged; what it
\* throws, or NoError (html.toLowerCase exists on a string only)
isContentBlocked(body) ==
    IF body = "text" THEN NoError ELSE TypeError("html.toLowerCase is not a function")

\* entry of scrapeProduct: the URL check and, when asked for, the session
\* pre-warm up to its GET (parseNaverUrl failing there is swallowed)
ScrapeStart(c) ==
    /\ calls[c].pc = "scrape"
    /\ IF ~isValidNaverProductUrl(calls[c].url)
       THEN /\ Set(c, [calls[c] EXCEPT !.pc = "thrown", !.scrapes = @ + 1,
                          !.error = ScrapeCatch(AppError("Invalid Naver Smartstore product URL", 400))])
            /\ UNCHANGED currentUserAgentIndex
       ELSE IF opts.establishSession /\ parseNaverUrl(calls[c].url).ok
       THEN /\ Set(c, [calls[c] EXCEPT !.pc = "sessionInflight", !.scrapes = @ + 1,
                          !.sessionGets = @ + 1,
                          !.agent = SelectedUserAgent(currentUserAgentIndex, FALSE)])
            /\ currentUserAgentIndex' = CursorAfterHeaders(currentUserAgentIndex, FALSE)
       ELSE /\ Set(c, [calls[c] EXCEPT !.pc = "fetch", !.scrapes = @ + 1])
            /\ UNCHANGED currentUserAgentIndex
    /\ UNCHANGED <<unitVars, entry, opts, endpoint, batchVars>>

\* establishSession: the pre-warm request settles; a failure is swallowed
SessionSettle(c) ==
    /\ calls[c].pc = "sessionInflight"
    /\ \E resp \in endpoint :
          IF resp.kind = "response" /\ validateStatus(resp.status)
          THEN Set(c, [calls[c] EXCEPT !.pc = "sessionDelay"])
          ELSE Set(c, [calls[c] EXCEPT !.pc = "fetch"])
    /\ UNCHANGED <<unitVars, entry, opts, endpoint, currentUserAgentIndex, batchVars>>

\* establishSession: await this.addRandomDelay(500)
SessionDelay(c) ==
    /\ calls[c].pc = "sessionDelay"
    /\ \E jitter \in Jitters :
          Set(c, [calls[c] EXCEPT !.pc = "fetch",
                     !.sessionSlept = addRandomDelay(SESSION_DELAY, jitter)])
    /\ UNCHANGED <<unitVars, entry, opts, endpoint, currentUserAgentIndex, batchVars>>

\* fetchProductPage returned: parse, validate, return
ScrapeFetched(c) ==
    /\ entry # "fetch"
    /\ calls[c].pc = "fetchReturned"
    /\ LET blocked == isContentBlocked(calls[c].lastResp.body)
           parsed == parseProductData(calls[c].data, calls[c].url)
           invalid == validateProductData(parsed.data)
       IN  IF blocked # NoError
           THEN Set(c, [calls[c] EXCEPT !.pc = "thrown", !.error = ScrapeCatch(blocked)])
           ELSE IF ~parsed.ok
           THEN Set(c, [calls[c] EXCEPT !.pc = "thrown", !.error = ScrapeCatch(parsed.error)])
           ELSE IF invalid # NoError
           THEN Set(c, [calls[c] EXCEPT !.pc = "thrown", !.error = ScrapeCatch(invalid)])
           ELSE Set(c, [calls[c] EXCEPT !.pc = "returned", !.product = parsed.data,
                           !.warnings = validateProductDataWarnings(parsed.data)])
    /\ UNCHANGED <<unitVars, entry, opts, endpoint, currentUserAgentIndex, batchVars>>

\* a catch block that calls fetchProductPage again after a 429
ScrapeFetchFailedRefetches(c) ==
    /\ entry # "fetch"
    /\ calls[c].pc = "fetchThrown"
    /\ IF calls[c].error.statusCode = 429
       THEN Set(c, [calls[c] EXCEPT !.pc = "fetch"])
       ELSE Set(c, [calls[c] EXCEPT !.pc = "thrown", !.error = ScrapeCatch(calls[c].error)])
    /\ UNCHANGED <<unitVars, entry, opts, endpoint, currentUserAgentIndex, batchVars>>

\* fetchProductPage threw: the catch block of scrapeProduct
ScrapeFetchFailed(c) ==
    /\ entry # "fetch"
    /\ calls[c].pc = "fetchThrown"
    /\ Set(c, [calls[c] EXCEPT !.pc = "thrown", !.error = ScrapeCatch(calls[c].error)])
    /\ UNCHANGED <<unitVars, entry, opts, endpoint, currentUserAgentIndex, batchVars>>

(***************************************************************************)
(* One call of fetchProductPage or of scrapeProduct                        *)
(***************************************************************************)
Urls == {UrlEmpty, UrlNotAUrl, UrlProduct, UrlProductHttp, UrlFtp, UrlFtpOther,
         UrlOtherHost, UrlStoreRoot, UrlProductsTail, UrlProductsNoId}

\* no function is applied on its own and there is no RateLimitValidator
NotApplied == [applied |-> FALSE]
Applied(value) == [applied |-> TRUE, value |-> value]
NoLimiter == [requests |-> <<>>]

NoUnit ==
    /\ arg = <<>>
    /\ result = NotApplied
    /\ limiter = NoLimiter

NoBatch ==
    /\ urls = <<>>
    /\ bpc = "idle"
    /\ i = 0
    /\ success = <<>>
    /\ failed = <<>>
    /\ itemStatus = <<>>
    /\ delayBefore = <<>>
    /\ pendingDelay = 0

Init ==
    /\ NoUnit
    /\ entry \in {"fetch", "scrape"}
    /\ opts \in [retries : 0..MaxRetries, retryDelay : RetryDelays,
                 userAgent : BOOLEAN, establishSession : BOOLEAN,
                 delayBetweenRequests : {DEFAULT_DELAY_BETWEEN_REQUESTS}]
    /\ entry = "fetch" => ~opts.establishSession
    /\ currentUserAgentIndex = 0
    /\ endpoint = Responses
    /\ \E url \in Urls :
          calls = [c \in CallIds |-> IF c = 1 THEN NewCall(entry, url) ELSE IdleCall]
    /\ NoBatch

Next ==
    \E c \in CallIds :
        \/ FetchStart(c)
        \/ FetchLoop(c)
        \/ FetchBackoff(c)
        \/ FetchGet(c)
        \/ FetchSettle(c)
        \/ FetchRateLimitDelay(c)
        \/ ScrapeStart(c)
        \/ SessionSettle(c)
        \/ SessionDelay(c)
        \/ ScrapeFetched(c)
        \/ ScrapeFetchFailed(c)

Spec == Init /\ [][Next]_vars

(***************************************************************************)
(* Concurrent calls of scrapeProduct on the NaverScraper the routes share  *)
(***************************************************************************)
ConcurrentResponses ==
    {HttpResponse(200, TRUE, MkPage(<<Rep("a", 4)>>, <<>>, <<>>, <<>>)),
     HttpResponse(429, TRUE, NoPage)}

\* MaxConcurrent requests have reached the route handler, which calls
\* scraper.scrapeProduct for each; a call runs until it awaits a delay or
\* the network, and then any call that is ready runs
InitConcurrent ==
    /\ NoUnit
    /\ entry = "scrape"
    /\ opts \in [retries : {1}, retryDelay : {DEFAULT_RETRY_DELAY},
                 userAgent : BOOLEAN, establishSession : BOOLEAN,
                 delayBetweenRequests : {DEFAULT_DELAY_BETWEEN_REQUESTS}]
    /\ currentUserAgentIndex = 0
    /\ endpoint = ConcurrentResponses
    /\ calls = [c \in CallIds |-> IF c <= MaxConcurrent THEN NewCall("scrape", UrlProduct)
                                  ELSE IdleCall]
    /\ NoBatch

SpecConcurrent == InitConcurrent /\ [][Next]_vars

(***************************************************************************)
(* NaverScraper.scrapeMultipleProducts                                     *)
(***************************************************************************)
\* await this.scrapeProduct(url, options): the loop goes on once the call
\* has settled
AwaitedNotAwaited(call) == TRUE
Awaited(call) == call.pc \in {"returned", "thrown"}

\* i < urls.length - 1 && delayBetweenRequests > 0 (i is 1-based here)
DelayAfterSuccessAlways(index, length, delayBetweenRequests) == delayBetweenRequests > 0
DelayAfterSuccess(index, length, delayBetweenRequests) ==
    index < length /\ delayBetweenRequests > 0

\* const extendedDelay = delayBetweenRequests * 2
extendedDelayNotDoubled(delayBetweenRequests) == 0
extendedDelay(delayBetweenRequests) == delayBetweenRequests * 2

\* error instanceof AppError ? error.message : "Unknown error"
errorMessage(error) == IF IsAppError(error) THEN error.message ELSE "Unknown error"

\* what outlives a settled invocation: its outcome and its request counts
Retired(call) ==
    [IdleCall EXCEPT !.pc = call.pc, !.url = call.url, !.gets = call.gets,
                     !.wire = call.wire, !.sessionGets = call.sessionGets,
                     !.scrapes = call.scrapes, !.fetches = call.fetches,
                     !.product = call.product, !.error = call.error]

\* scrapeProduct(url) called for a list entry; the request and invocation
\* counts of the entry run on
Invocation(slot, url) ==
    [NewCall("scrape", url) EXCEPT !.scrapes = slot.scrapes, !.fetches = slot.fetches,
                                   !.gets = slot.gets, !.wire = slot.wire]

\* the loop test, the skip of a falsy entry, and the call of scrapeProduct
BatchLoop ==
    /\ bpc = "loop"
    /\ IF i > Len(urls)
       THEN /\ bpc' = "done"
            /\ UNCHANGED <<i, calls, itemStatus, delayBefore, pendingDelay>>
       ELSE IF IsFalsyUrl(urls[i])
       THEN /\ i' = i + 1
            /\ itemStatus' = [itemStatus EXCEPT ![i] = -1]
            /\ UNCHANGED <<bpc, calls, delayBefore, pendingDelay>>
       ELSE /\ bpc' = "await"
            /\ Set(i, Invocation(calls[i], urls[i]))
            /\ delayBefore' = [delayBefore EXCEPT ![i] = pendingDelay]
            /\ pendingDelay' = 0
            /\ UNCHANGED <<i, itemStatus>>
    /\ UNCHANGED <<unitVars, entry, opts, endpoint, currentUserAgentIndex, urls, success, failed>>

\* scrapeProduct returned: success.push, then the inter-item delay
BatchItemSucceeded ==
    /\ bpc = "await"
    /\ Awaited(calls[i])
    /\ calls[i].pc # "thrown"
    /\ success' = Append(success, calls[i].product)
    /\ itemStatus' = [itemStatus EXCEPT ![i] = 200]
    /\ Set(i, Retired(calls[i]))
    /\ IF DelayAfterSuccess(i, Len(urls), opts.delayBetweenRequests)
       THEN /\ bpc' = "sleep"
            /\ pendingDelay' = pendingDelay + opts.delayBetweenRequests
            /\ UNCHANGED i
       ELSE /\ bpc' = "loop"
            /\ i' = i + 1
            /\ UNCHANGED pendingDelay
    /\ UNCHANGED <<unitVars, entry, opts, endpoint, currentUserAgentIndex, urls, failed, delayBefore>>

\* a catch block that rethrows: the batch ends with the item's error
BatchItemFailedRethrows ==
    /\ bpc = "await"
    /\ Awaited(calls[i])
    /\ calls[i].pc = "thrown"
    /\ bpc' = "thrown"
    /\ UNCHANGED <<unitVars, entry, opts, endpoint, calls, currentUserAgentIndex, urls, i, success,
                   failed, itemStatus, delayBefore, pendingDelay>>

\* scrapeProduct threw: failed.push, then the extended delay after a 429
BatchItemFailed ==
    /\ bpc = "await"
    /\ Awaited(calls[i])
    /\ calls[i].pc = "thrown"
    /\ failed' = Append(failed, [url |-> urls[i], error |-> errorMessage(calls[i].error)])
    /\ itemStatus' = [itemStatus EXCEPT ![i] = calls[i].error.statusCode]
    /\ Set(i, Retired(calls[i]))
    /\ IF IsAppError(calls[i].error) /\ calls[i].error.statusCode = 429
       THEN /\ bpc' = "sleep"
            /\ pendingDelay' = pendingDelay + extendedDelay(opts.delayBetweenRequests)
            /\ UNCHANGED i
       ELSE /\ bpc' = "loop"
            /\ i' = i + 1
            /\ UNCHANGED pendingDelay
    /\ UNCHANGED <<unitVars, entry, opts, endpoint, currentUserAgentIndex, urls, success, delayBefore>>

\* the delay is over: next iteration
BatchWake ==
    /\ bpc = "sleep"
    /\ bpc' = "loop"
    /\ i' = i + 1
    /\ UNCHANGED <<unitVars, entry, opts, endpoint, calls, currentUserAgentIndex, urls, success,
                   failed, itemStatus, delayBefore, pendingDelay>>

BatchUrls == {UrlEmpty, UrlProduct, UrlOtherHost}

BatchResponses ==
    {HttpResponse(200, TRUE, MkPage(<<Rep("a", 4)>>, <<>>, <<>>, <<>>)),
     HttpResponse(200, TRUE, NoPage),
     HttpResponse(429, TRUE, NoPage),
     HttpResponse(404, TRUE, NoPage),
     HttpResponse(403, TRUE, NoPage),
     HttpResponse(500, TRUE, NoPage),
     TransportError("ECONNABORTED", "timeout")}

SeqsUpTo(S, n) == UNION {[1..k -> S] : k \in 0..n}

InitBatch ==
    /\ NoUnit
    /\ entry = "batch"
    /\ opts \in [retries : {0, 1}, retryDelay : {DEFAULT_RETRY_DELAY},
                 userAgent : {FALSE}, establishSession : BOOLEAN,
                 delayBetweenRequests : {0, DEFAULT_DELAY_BETWEEN_REQUESTS}]
    /\ endpoint = BatchResponses
    /\ currentUserAgentIndex = 0
    /\ calls = [c \in CallIds |-> IdleCall]
    /\ urls \in SeqsUpTo(BatchUrls, MaxUrls)
    /\ bpc = "loop"
    /\ i = 1
    /\ success = <<>>
    /\ failed = <<>>
    /\ itemStatus = [k \in 1..Len(urls) |-> 0]
    /\ delayBefore = [k \in 1..Len(urls) |-> 0]
    /\ pendingDelay = 0

NextBatch ==
    \/ BatchLoop
    \/ BatchItemSucceeded
    \/ BatchItemFailed
    \/ BatchWake
    \/ Next

SpecBatch == InitBatch /\ [][NextBatch]_vars

FairResponses ==
    {HttpResponse(200, TRUE, MkPage(<<Rep("a", 4)>>, <<>>, <<>>, <<>>)),
     HttpResponse(200, TRUE, NoPage),
     HttpResponse(429, TRUE, NoPage),
     HttpResponse(404, TRUE, NoPage),
     HttpResponse(403, TRUE, NoPage),
     TransportError("ECONNABORTED", "timeout")}

InitBatchFair ==
    /\ NoUnit
    /\ entry = "batch"
    /\ opts \in [retries : {0, 1}, retryDelay : {DEFAULT_RETRY_DELAY},
                 userAgent : {FALSE}, establishSession : BOOLEAN,
                 delayBetweenRequests : {DEFAULT_DELAY_BETWEEN_REQUESTS}]
    /\ opts.establishSession => opts.retries = 0
    /\ endpoint = FairResponses
    /\ currentUserAgentIndex = 0
    /\ calls = [c \in CallIds |-> IdleCall]
    /\ urls \in SeqsUpTo(BatchUrls, MaxUrls)
    /\ bpc = "loop"
    /\ i = 1
    /\ success = <<>>
    /\ failed = <<>>
    /\ itemStatus = [k \in 1..Len(urls) |-> 0]
    /\ delayBefore = [k \in 1..Len(urls) |-> 0]
    /\ pendingDelay = 0

\* the event loop runs every continuation that is ready: timers fire and
\* every request settles (each has a timeout)
SpecBatchFair == InitBatchFair /\ [][NextBatch]_vars /\ WF_vars(NextBatch)

(***************************************************************************)
(* Functions applied on their own: the scraper is idle                     *)
(***************************************************************************)
NoScraper ==
    /\ opts = [retries |-> 0, retryDelay |-> 0, userAgent |-> FALSE,
               establishSession |-> FALSE, delayBetweenRequests |-> 0]
    /\ endpoint = {}
    /\ currentUserAgentIndex = 0
    /\ calls = [c \in CallIds |-> IdleCall]
    /\ NoBatch

Won(digits) == digits \o <<"won">>

PriceTexts ==
    { Won(<<"3", "5", ",", "0", "0", "0">>),
      Won(<<"2", "4", ",", "9", "0", "0">>) \o <<" ", "teuk", "ga">>,
      Won(<<"9", "0", "0">>),
      Won(<<"1", ",", "0", "0", "0">>),
      <<" ", "8", "9", "9", " ">>,
      <<"3", "0", "%", " ", "hal", "in">>,
      <<",", "won", " ", "0", "won">>,
      <<"se", "il">> }

MetaPrices == { <<>>, <<"1", "2", "0", "0", "0">>, <<"a">> }

PricePages ==
    { MkPricePage(texts, meta) : texts \in SeqsUpTo(PriceTexts, MaxPriceElements),
                                 meta \in MetaPrices }

InitPrice ==
    /\ entry = "extractPrice"
    /\ arg \in PricePages
    /\ result = NotApplied
    /\ limiter = NoLimiter
    /\ NoScraper

\* ProductParser.extractPrice($)
ExtractPrice ==
    /\ entry = "extractPrice"
    /\ ~result.applied
    /\ result' = Applied(extractPrice(arg))
    /\ UNCHANGED <<arg, limiter, entry, opts, endpoint, calls, currentUserAgentIndex, batchVars>>

NextPrice == ExtractPrice

SpecPrice == InitPrice /\ [][NextPrice]_vars

\* image sources
CdnUrl(scheme, name) == scheme \o <<"/", "/", "c", "d", "n", "/">> \o name

ImageElements ==
    { MkImage(CdnUrl(<<>>, <<"x", "_", "s", "m", "a", "l", "l", ".", "j", "p", "g">>), <<>>, <<>>),
      MkImage(CdnUrl(<<"h", "t", "t", "p", "s", ":">>, <<"y", ".", "j", "p", "g">>), <<>>, <<>>),
      MkImage(CdnUrl(<<>>, <<"y", ".", "j", "p", "g">>), <<>>, <<>>),
      MkImage(CdnUrl(<<"h", "t", "t", "p", "s", ":">>, <<"z", ".", "p", "n", "g", "?", "v">>), <<>>, <<>>),
      MkImage(CdnUrl(<<"h", "t", "t", "p", "s", ":">>, <<"y", ".", "s", "v", "g">>), <<>>, <<>>),
      MkImage(<<"/", "y", ".", "j", "p", "g">>, CdnUrl(<<"h", "t", "t", "p", "s", ":">>, <<"u", ".", "g", "i", "f">>), <<>>),
      MkImage(CdnUrl(<<"h", "t", "t", "p", "s", ":">>, <<"w", ".", "J", "P", "G">>), <<>>, <<>>),
      MkImage(<<>>, CdnUrl(<<>>, <<"v", ".", "w", "e", "b", "p">>), <<>>),
      MkImage(<<>>, <<>>, CdnUrl(<<"h", "t", "t", "p", ":">>, <<"t", "h", "u", "m", "b", ".", "g", "i", "f">>)) }

ImagePages == { [imageElements |-> es] : es \in SeqsUpTo(ImageElements, MaxImageElements) }

InitImages ==
    /\ entry = "extractImages"
    /\ arg \in { [page |-> page, maxImages |-> n] : page \in ImagePages, n \in (0 - 1)..MaxImages }
    /\ result = NotApplied
    /\ limiter = NoLimiter
    /\ NoScraper

\* ProductParser.extractImages($, maxImages)
ExtractImages ==
    /\ entry = "extractImages"
    /\ ~result.applied
    /\ result' = Applied(extractImages(arg.page, arg.maxImages))
    /\ UNCHANGED <<arg, limiter, entry, opts, endpoint, calls, currentUserAgentIndex, batchVars>>

NextImages == ExtractImages

SpecImages == InitImages /\ [][NextImages]_vars

\* URL strings
UrlSchemes == { <<"h", "t", "t", "p", "s", ":", "/", "/">>, <<"h", "t", "t", "p", ":", "/", "/">>, <<"H", "T", "T", "P", "S", ":", "/", "/">>,
               <<"f", "t", "p", ":", "/", "/">>, <<>> }

SmartstoreHost == <<"s", "m", "a", "r", "t", "s", "t", "o", "r", "e", ".", "n", "a", "v", "e", "r", ".", "c", "o", "m">>

UrlHosts ==
    { SmartstoreHost,
      <<"b", "r", "a", "n", "d", ".", "n", "a", "v", "e", "r", ".", "c", "o", "m">>,
      <<"e", "x", "a", "m", "p", "l", "e", ".", "c", "o", "m">>,
      SmartstoreHost \o <<".", "e", "v", "i", "l", ".", "e", "x", "a", "m", "p", "l", "e">>,
      SmartstoreHost \o <<"@", "e", "v", "i", "l", ".", "e", "x", "a", "m", "p", "l", "e">> }

StoreRootPaths == { <<>>, <<"/", "s", "t", "o", "r", "e">> }

NonProductPaths == { <<"/", "s", "t", "o", "r", "e", "/", "c", "a", "t", "e", "g", "o", "r", "i", "e", "s", "/", "1", "2", "3">>, <<"/", "s", "t", "o", "r", "e", "/", "p", "r", "o", "d", "u", "c", "t", "s", "/", "a", "b", "c">> }

ProductPaths ==
    { <<"/", "s", "t", "o", "r", "e", "/", "p", "r", "o", "d", "u", "c", "t", "s", "/", "1", "2", "3", "4", "5", "6">>,
      <<"/", "s", "t", "o", "r", "e", "/", "1", "2", "3", "4", "5", "6">>,
      <<"/", "s", "t", "o", "r", "e", "?", "p", "r", "o", "d", "u", "c", "t", "_", "n", "o", "=", "1", "2", "3", "4", "5", "6">>,
      <<"/", "s", "t", "o", "r", "e", "/", "p", "r", "o", "d", "u", "c", "t", "s", "/", "1", "2", "3", "4", "5", "6">> \o Rep("0", MAX_URL_LENGTH) }

UrlPaths == StoreRootPaths \cup NonProductPaths \cup ProductPaths

UrlStrings ==
    { pad \o scheme \o host \o path \o pad :
        pad \in {<<>>, <<" ">>}, scheme \in UrlSchemes, host \in UrlHosts, path \in UrlPaths }
    \cup { <<"n", "o", "t", "-", "a", "-", "u", "r", "l">> }

InitValidateUrl ==
    /\ entry = "validateProductUrl"
    /\ arg \in UrlStrings
    /\ result = NotApplied
    /\ limiter = NoLimiter
    /\ NoScraper

\* validateProductUrl(url)
ValidateProductUrl ==
    /\ entry = "validateProductUrl"
    /\ ~result.applied
    /\ result' = Applied(validateProductUrl(arg))
    /\ UNCHANGED <<arg, limiter, entry, opts, endpoint, calls, currentUserAgentIndex, batchVars>>

NextValidateUrl == ValidateProductUrl

SpecValidateUrl == InitValidateUrl /\ [][NextValidateUrl]_vars

(***************************************************************************)
(* utils/validationHelpers.ts: RateLimitValidator                          *)
(***************************************************************************)
Keys == {"ip1", "ip2"}
WindowLengths == {1, 2}

\* no entry in the requests map
NoEntry == [present |-> FALSE, count |-> 0, resetTime |-> 0]
Entry(count, resetTime) == [present |-> TRUE, count |-> count, resetTime |-> resetTime]

\* RateLimitValidator.cleanup(now)
cleanup(requests, now, windowMs) ==
    [k \in Keys |-> IF requests[k].present /\ now > requests[k].resetTime + windowMs
                    THEN NoEntry ELSE requests[k]]

\* entry.count <= this.config.maxRequests
WithinLimitPlusOne(count, maxRequests) == count <= maxRequests + 1
WithinLimit(count, maxRequests) == count <= maxRequests

\* Math.max(0, maxRequests - count)
Remaining(count, maxRequests) == IF maxRequests - count > 0 THEN maxRequests - count ELSE 0

\* the entry of key after isAllowed has counted the call made at now
CountedEntryNeverReset(requests, key, now, windowMs) ==
    LET found == cleanup(requests, now, windowMs)[key]
        entry0 == IF found.present THEN found ELSE Entry(0, now + windowMs)
    IN  Entry(entry0.count + 1, entry0.resetTime)

CountedEntry(requests, key, now, windowMs) ==
    LET found == cleanup(requests, now, windowMs)[key]
        entry0 == IF found.present THEN found ELSE Entry(0, now + windowMs)
        entry1 == IF now > entry0.resetTime THEN Entry(0, now + windowMs) ELSE entry0
    IN  Entry(entry1.count + 1, entry1.resetTime)

InitRateLimit ==
    /\ entry = "isAllowed"
    /\ \E windowMs \in WindowLengths, maxRequests \in 0..MaxRequests :
          limiter = [config |-> [windowMs |-> windowMs, maxRequests |-> maxRequests],
                     requests |-> [k \in Keys |-> NoEntry],
                     now |-> 0,
                     returned |-> <<>>]
    /\ arg = <<>>
    /\ result = NotApplied
    /\ NoScraper

\* time passes
Tick ==
    /\ entry = "isAllowed"
    /\ limiter.now < MaxTime
    /\ limiter' = [limiter EXCEPT !.now = @ + 1]
    /\ UNCHANGED <<arg, result, entry, opts, endpoint, calls, currentUserAgentIndex, batchVars>>

\* RateLimitValidator.isAllowed(req) for a request of key
IsAllowed(key) ==
    /\ entry = "isAllowed"
    /\ Len(limiter.returned) < MaxCalls
    /\ LET config == limiter.config
           counted == CountedEntry(limiter.requests, key, limiter.now, config.windowMs)
           isAllowed == WithinLimit(counted.count, config.maxRequests)
       IN  limiter' =
             [limiter EXCEPT
                !.requests = [cleanup(limiter.requests, limiter.now, config.windowMs)
                                 EXCEPT ![key] = counted],
                !.returned = Append(@,
                    [key |-> key, time |-> limiter.now,
                     isValid |-> isAllowed,
                     error |-> IF isAllowed THEN "" ELSE "Rate limit exceeded",
                     remaining |-> Remaining(counted.count, config.maxRequests),
                     resetTime |-> counted.resetTime])]
    /\ UNCHANGED <<arg, result, entry, opts, endpoint, calls, currentUserAgentIndex, batchVars>>

NextRateLimit == Tick \/ \E key \in Keys : IsAllowed(key)

SpecRateLimit == InitRateLimit /\ [][NextRateLimit]_vars

(***************************************************************************)
(* Properties of one call                                                  *)
(***************************************************************************)
\* fetchProductPage has ended, by returning or by throwing
FetchEnded(c) == calls[c].pc \in {"fetchReturned", "fetchThrown", "returned", "thrown"}

\* the call has ended by throwing
CallFailed(c) == calls[c].pc \in {"fetchThrown", "thrown"}

\* the call has ended
CallEnded(c) ==
    \/ calls[c].pc \in {"returned", "thrown"}
    \/ entry = "fetch" /\ calls[c].pc \in {"fetchReturned", "fetchThrown"}

\* C1: a call of fetchProductPage never issues more than retries + 1 GET
\* requests, and when every response it got was a retryable failure (429,
\* 403, a status >= 500 or a timeout) it issues exactly retries + 1 requests
\* and then fails.
C1_RetryBudget ==
    \A c \in CallIds :
        /\ calls[c].gets <= opts.retries + 1
        /\ (FetchEnded(c) /\ calls[c].attempt >= 1 /\ calls[c].onlyRetryable)
              => (calls[c].gets = opts.retries + 1 /\ CallFailed(c))

C1_Witness ==
    \E c \in CallIds :
        /\ calls[c].pc = "fetchThrown"
        /\ calls[c].onlyRetryable
        /\ opts.retries = MaxRetries
        /\ calls[c].gets = MaxRetries + 1
        /\ calls[c].lastResp.status = 403
        /\ calls[c].sleeps > MaxRetries

\* C2: an attempt that receives 404 fails the call with NotFound (404), and
\* one that receives 400 or a non-error response that is not HTML fails it
\* with InvalidInput (400); no request and no sleep follows, whatever the
\* retry budget, so a first response of 404 means exactly one request.
FailFastResponse(resp) ==
    /\ resp.kind = "response"
    /\ \/ resp.status \in {404, 400}
       \/ resp.status < 400 /\ ~resp.html

C2_FailFast ==
    \A c \in CallIds :
        FailFastResponse(calls[c].lastResp) =>
            /\ CallFailed(c)
            /\ IsAppError(calls[c].error)
            /\ calls[c].error.statusCode = (IF calls[c].lastResp.status = 404 THEN 404 ELSE 400)
            /\ calls[c].slept = 0
            /\ calls[c].gets = calls[c].attempt
            /\ calls[c].attempt = 1 => (calls[c].gets = 1 /\ calls[c].sleeps = 0)

C2_Witness ==
    \E c \in CallIds :
        /\ calls[c].lastResp = HttpResponse(404, TRUE, NoPage)
        /\ calls[c].pc = "fetchThrown"
        /\ calls[c].error = AppError("Product not found", 404)
        /\ opts.retries = MaxRetries
        /\ calls[c].gets = 1

\* C3: for a URL that is not a storefront product URL (a scheme other than
\* http/https, a hostname other than smartstore.naver.com, or a path without
\* a /products/ segment) fetchProductPage and scrapeProduct fail with
\* InvalidInput (400) and no request is issued, the session pre-warm included.
IsStorefrontProductUrl(url) ==
    /\ url.protocol \in {"http:", "https:"}
    /\ url.hostname = "smartstore.naver.com"
    /\ PathIncludesProducts(url.pathParts)

C3_InvalidInputNoNetwork ==
    \A c \in CallIds :
        (calls[c].pc # "idle" /\ ~IsStorefrontProductUrl(calls[c].url)) =>
            /\ calls[c].wire = 0
            /\ calls[c].sessionGets = 0
            /\ CallEnded(c) => (CallFailed(c) /\ calls[c].error.statusCode = 400)

\* C9: scrapeProduct returns a record only with a title of length in
\* [4, 200); when the page has no title candidate of that length, in the
\* content selectors or in the meta fallback, the call fails.
TitleInBounds(title) == Len(title) >= 4 /\ Len(title) < 200

C9_TitleBound ==
    \A c \in CallIds :
        calls[c].pc = "returned" => TitleInBounds(calls[c].product.title)

\* C10: with retries = N and an endpoint that refuses every connection,
\* fetchProductPage makes N + 1 attempts before ServiceUnavailable (503)
\* is surfaced.
C10_RefusedRetried ==
    \A c \in CallIds :
        (CallFailed(c) /\ calls[c].lastResp.code = "ECONNREFUSED" /\ calls[c].onlyRefused)
            => calls[c].gets = opts.retries + 1

\* C10 as the code has it: a refused connection ends the call at once with
\* ServiceUnavailable (503); against an endpoint that refuses every
\* connection the call makes exactly one attempt, whatever retries is.
C10_RefusedFailsFast ==
    \A c \in CallIds :
        calls[c].lastResp.code = "ECONNREFUSED" =>
            /\ CallFailed(c)
            /\ calls[c].error = AppError("Connection refused by server", 503)
            /\ calls[c].slept = 0
            /\ calls[c].gets = calls[c].attempt
            /\ calls[c].onlyRefused => calls[c].gets = 1

C10_Witness ==
    \E c \in CallIds :
        /\ calls[c].lastResp.code = "ECONNREFUSED"
        /\ calls[c].onlyRefused
        /\ opts.retries = MaxRetries
        /\ calls[c].pc = "fetchThrown"
        /\ calls[c].gets = 1

\* the call used its whole retry budget and its last attempt failed in a
\* way the loop retries (not one of the fail-fast outcomes)
FailFastOutcome(resp) ==
    \/ FailFastResponse(resp)
    \/ resp.kind = "error" /\ resp.code \in {"ENOTFOUND", "ECONNREFUSED"}

RanOutOfAttempts(c) ==
    /\ calls[c].pc = "fetchThrown"
    /\ calls[c].gets = opts.retries + 1
    /\ ~FailFastOutcome(calls[c].lastResp)

GenericFetchFailure == AppError("Failed to fetch product page after multiple attempts", 500)

\* C11: when fetchProductPage runs out of attempts, the error it throws is
\* the last classified failure seen during the call (RateLimited 429,
\* Forbidden 403, Timeout 408); the generic failure (500) is thrown only
\* when no attempt of the call produced a classified failure.
C11_LastClassifiedSurfaced ==
    \A c \in CallIds :
        RanOutOfAttempts(c) =>
            /\ calls[c].classified # NoError => calls[c].error = calls[c].classified
            /\ calls[c].error = GenericFetchFailure => calls[c].classified = NoError

\* C12: every failure that leaves scrapeProduct is an AppError with an
\* error status code and a message; a failure of fetchProductPage leaves
\* scrapeProduct unchanged, so with the status the fetcher gave it; an
\* exception that is not an AppError (here a TypeError raised on a response
\* whose data is not a string) leaves as AppError 500.
IsTypedError(e) == IsAppError(e) /\ e.statusCode \in 400..599 /\ e.message # ""

ScrapeFailuresTyped ==
    \A c \in CallIds :
        calls[c].pc = "thrown" =>
            /\ IsTypedError(calls[c].error)
            /\ calls[c].lastResp.body # "text" => calls[c].error.statusCode = 500

FetchFailureKept ==
    \A c \in CallIds :
        (calls[c].pc = "fetchThrown" /\ calls'[c].pc = "thrown")
            => (calls'[c].error = calls[c].error /\ IsTypedError(calls[c].error))

C12_TypedErrorsOnly == []ScrapeFailuresTyped /\ [][FetchFailureKept]_vars

C12_Witness ==
    \E c \in CallIds :
        /\ calls[c].pc = "thrown"
        /\ calls[c].lastResp = JsonResponse("array")
        /\ calls[c].error = AppError("Failed to scrape product data", 500)

(***************************************************************************)
(* Properties of a batch                                                   *)
(***************************************************************************)
\* scrapeProduct has been called for input entry k
Started(k) == calls[k].pc # "idle"

\* the scrape of input entry k is in progress
Running(k) == calls[k].pc \notin {"idle", "returned", "thrown"}

\* C4: once an item has failed with RateLimited (429), the delay before
\* every later item of the batch is at least double the configured delay,
\* and the delays before successive items never decrease.
C4_EscalationMonotonic ==
    \A k, m \in 1..Len(urls) :
        (k < m /\ Started(k) /\ Started(m)) =>
            /\ itemStatus[k] = 429 => delayBefore[m] >= 2 * opts.delayBetweenRequests
            /\ k > 1 => delayBefore[k] <= delayBefore[m]

\* C5: in a batch of 3 URLs whose first item fails with RateLimited, the
\* batch sleeps strictly longer before item 2 than before item 1, for any
\* configured delay.
C5_EscalationStrict ==
    (Len(urls) = 3 /\ itemStatus[1] = 429 /\ Started(2)) =>
        delayBefore[2] > delayBefore[1]

\* C5 as the code has it: the same, for any configured delay greater than
\* 0 (the sleep before item 2 is then twice the configured delay; a delay
\* of 0 doubles to 0).
C5_EscalationStrictPositive ==
    (Len(urls) = 3 /\ itemStatus[1] = 429 /\ Started(2) /\ opts.delayBetweenRequests > 0) =>
        /\ delayBefore[2] > delayBefore[1]
        /\ delayBefore[2] = 2 * opts.delayBetweenRequests

C5_Witness ==
    /\ Len(urls) = 3
    /\ itemStatus[1] = 429
    /\ Started(2)
    /\ opts.delayBetweenRequests = DEFAULT_DELAY_BETWEEN_REQUESTS
    /\ delayBefore[1] = 0
    /\ delayBefore[2] = 2 * DEFAULT_DELAY_BETWEEN_REQUESTS

\* C6: when scrapeMultipleProducts returns, every input entry is in exactly
\* one of success or failed: |success| + |failed| = |urls|.
C6_Partition ==
    bpc = "done" => Len(success) + Len(failed) = Len(urls)

\* C7: at most one item's scrape, and at most one request, is in progress
\* at any moment; while item c is being scraped the loop is waiting for it,
\* every earlier entry has been settled and recorded (or skipped), and no
\* inter-item delay is pending.
C7_Sequential ==
    /\ Cardinality({c \in CallIds : Running(c)}) <= 1
    /\ \A c \in CallIds :
          Running(c) =>
              /\ bpc = "await"
              /\ i = c
              /\ \A k \in 1..(c - 1) : itemStatus[k] # 0 /\ ~Running(k)

C7_Witness ==
    /\ Len(urls) = 3
    /\ calls[2].pc = "inflight"
    /\ itemStatus[1] = 200
    /\ delayBefore[2] = DEFAULT_DELAY_BETWEEN_REQUESTS
    /\ ~Started(3)

\* every entry that is not skipped has been scraped, with its outcome recorded
AllAttempted ==
    \A k \in 1..Len(urls) :
        IF IsFalsyUrl(urls[k]) THEN itemStatus[k] = -1
        ELSE itemStatus[k] > 0 /\ calls[k].pc \in {"returned", "thrown"}

\* C8: whatever the outcomes of the items, scrapeMultipleProducts goes on
\* to every remaining URL after a failure, eventually terminates, and
\* returns its result instead of throwing.
C8_NoEarlyTermination ==
    /\ <>(bpc = "done")
    /\ [](bpc = "done" => AllAttempted)
    /\ [](bpc # "thrown")

C8_Witness ==
    /\ bpc = "done"
    /\ Len(urls) = 3
    /\ itemStatus[1] = 429
    /\ itemStatus[2] = 404
    /\ itemStatus[3] = 200
    /\ Len(success) = 1
    /\ Len(failed) = 2

\* C13: a scrapeProduct call invokes fetchProductPage at most once;
\* scrapeMultipleProducts invokes scrapeProduct exactly once for every list
\* entry it does not skip, a failed one (RateLimited included) being
\* recorded and not tried again; so the GETs issued for the product URL of
\* one list entry never exceed retries + 1.
C13_NoReRetry ==
    \A k \in 1..Len(urls) :
        /\ calls[k].fetches <= calls[k].scrapes
        /\ calls[k].scrapes <= 1
        /\ calls[k].gets <= opts.retries + 1
        /\ itemStatus[k] = -1 => calls[k].scrapes = 0
        /\ itemStatus[k] \notin {0, -1} => calls[k].scrapes = 1
        /\ bpc = "done" => itemStatus[k] # 0

C13_Witness ==
    /\ bpc = "done"
    /\ Len(urls) = 3
    /\ opts.retries = 1
    /\ itemStatus[1] = 429
    /\ calls[1].gets = 2
    /\ calls[1].scrapes = 1
    /\ calls[1].fetches = 1
    /\ itemStatus[2] = -1
    /\ itemStatus[3] = 200

(***************************************************************************)
(* Properties of extractPrice                                              *)
(***************************************************************************)
SetMax(S) == CHOOSE x \in S : \A y \in S : x >= y
SetMin(S) == CHOOSE x \in S : \A y \in S : x <= y

\* the positive numbers written in one element text
ValuesIn(text) ==
    LET matches == PriceMatches(Trim(text))
        values == {parseInt(DigitsOnly(matches[k])) : k \in 1..Len(matches)}
    IN  {v.val : v \in {x \in values : x.kind = "number" /\ x.val > 0}}

\* every positive number of every candidate region, and those of the
\* regions whose text is marked as a discount
CollectedValues(page) == UNION {ValuesIn(page.priceTexts[k]) : k \in 1..Len(page.priceTexts)}
MarkedValues(page) ==
    UNION {ValuesIn(page.priceTexts[k]) :
              k \in {j \in 1..Len(page.priceTexts) : IsDiscountText(Trim(page.priceTexts[j]))}}

ExamplePriceTexts ==
    << Won(<<"3", "5", ",", "0", "0", "0">>),
       Won(<<"2", "4", ",", "9", "0", "0">>) \o <<" ", "teuk", "ga">> >>

\* C14: extractPrice collects every positive number of every candidate
\* region: original is the largest of them; when some come from text
\* marked as a discount, discounted is the smallest of the marked ones;
\* currency is KRW.  The texts "35,000won" and "24,900won teukga" give
\* original 35000 and discounted 24900.
C14_PriceDisambiguation ==
    (entry = "extractPrice" /\ result.applied) =>
        /\ result.value.currency = "KRW"
        /\ CollectedValues(arg) # {} =>
              result.value.original = Num(SetMax(CollectedValues(arg)))
        /\ MarkedValues(arg) # {} =>
              result.value.discounted = Num(SetMin(MarkedValues(arg)))
        /\ arg.priceTexts = ExamplePriceTexts =>
              /\ result.value.original = Num(35000)
              /\ result.value.discounted = Num(24900)

C14_Witness ==
    /\ entry = "extractPrice"
    /\ result.applied
    /\ arg.priceTexts = ExamplePriceTexts
    /\ result.value.original = Num(35000)
    /\ result.value.discounted = Num(24900)
    /\ result.value.formatted = Won(<<"3", "5", ",", "0", "0", "0">>)

\* how many positive numbers the candidate regions hold, repeats counted
IsPositiveMatch(match) ==
    LET v == parseInt(DigitsOnly(match)) IN v.kind = "number" /\ v.val > 0

RECURSIVE CollectedCount(_)
CollectedCount(texts) ==
    IF texts = <<>> THEN 0
    ELSE Len(SelectSeq(PriceMatches(Trim(Head(texts))), IsPositiveMatch))
             + CollectedCount(Tail(texts))

UnmarkedPair ==
    /\ entry = "extractPrice"
    /\ result.applied
    /\ CollectedCount(arg.priceTexts) >= 2
    /\ MarkedValues(arg) = {}

\* C15: when two or more prices are collected and none is marked as a
\* discount, discounted is the smallest collected value exactly when that
\* value is at most 90% of the largest (900 against 1000 included), and
\* is absent otherwise.
C15_NinetyPercentInclusive ==
    UnmarkedPair =>
        result.value.discounted =
            (IF SetMin(CollectedValues(arg)) * 10 <= SetMax(CollectedValues(arg)) * 9
             THEN Num(SetMin(CollectedValues(arg))) ELSE Undefined)

\* C15 as the code has it: when two or more prices are collected and none
\* is marked as a discount, discounted is the smallest collected value
\* exactly when that value is below 90% of the largest, and is absent
\* otherwise; 900 against 1000 leaves it absent.
C15_NinetyPercentStrict ==
    UnmarkedPair =>
        result.value.discounted =
            (IF SetMin(CollectedValues(arg)) * 10 < SetMax(CollectedValues(arg)) * 9
             THEN Num(SetMin(CollectedValues(arg))) ELSE Undefined)

C15_Witness ==
    /\ UnmarkedPair
    /\ arg.priceTexts = <<Won(<<"9", "0", "0">>), Won(<<"1", ",", "0", "0", "0">>)>>
    /\ result.value.original = Num(1000)
    /\ result.value.discounted = Undefined

(***************************************************************************)
(* Properties of extractImages                                             *)
(***************************************************************************)
\* the sources of the page in the order they are met, each resolved
ResolvedSources(page) ==
    [k \in 1..Len(page.imageElements) |->
        ResolveImageUrl(FirstTruthy(page.imageElements[k].src, page.imageElements[k].dataSrc,
                                    page.imageElements[k].dataOriginal))]

\* where url is met first in xs (0 when it is not in xs)
FirstIndex(xs, url) ==
    IF \E k \in 1..Len(xs) : xs[k] = url
    THEN CHOOSE k \in 1..Len(xs) : xs[k] = url /\ \A j \in 1..(k - 1) : xs[j] # url
    ELSE 0

\* C17: the list extractImages returns has no duplicates, is no longer
\* than max(maxImages, 0), holds only URLs with an allowlisted extension
\* that do not match the low-quality pattern, holds no protocol-relative
\* URL (each is resolved to https:), and keeps the order in which the
\* sources are first met; //cdn/x_small.jpg is left out and
\* https://cdn/y.jpg is kept.
C17_ImageList ==
    (entry = "extractImages" /\ result.applied) =>
        LET images == result.value
            sources == ResolvedSources(arg.page)
        IN  /\ \A a, b \in 1..Len(images) : a # b => images[a] # images[b]
            /\ Len(images) <= (IF arg.maxImages > 0 THEN arg.maxImages ELSE 0)
            /\ \A k \in 1..Len(images) :
                  /\ MatchesImageExtension(images[k])
                  /\ ~isLowQualityImage(images[k])
                  /\ StartsWith(images[k], <<"h", "t", "t", "p">>)
                  /\ FirstIndex(sources, images[k]) > 0
            /\ \A a, b \in 1..Len(images) :
                  a < b => FirstIndex(sources, images[a]) < FirstIndex(sources, images[b])
            /\ (arg.maxImages >= 1
                /\ arg.page.imageElements =
                      << MkImage(CdnUrl(<<>>, <<"x", "_", "s", "m", "a", "l", "l", ".", "j", "p", "g">>), <<>>, <<>>),
                         MkImage(CdnUrl(<<"h", "t", "t", "p", "s", ":">>, <<"y", ".", "j", "p", "g">>), <<>>, <<>>) >>)
               => images = <<CdnUrl(<<"h", "t", "t", "p", "s", ":">>, <<"y", ".", "j", "p", "g">>)>>

C17_Witness ==
    /\ entry = "extractImages"
    /\ result.applied
    /\ arg.maxImages = 2
    /\ arg.page.imageElements =
          << MkImage(CdnUrl(<<>>, <<"y", ".", "j", "p", "g">>), <<>>, <<>>),
             MkImage(CdnUrl(<<"h", "t", "t", "p", "s", ":">>, <<"y", ".", "j", "p", "g">>), <<>>, <<>>),
             MkImage(<<>>, CdnUrl(<<>>, <<"v", ".", "w", "e", "b", "p">>), <<>>) >>
    /\ result.value = << CdnUrl(<<"h", "t", "t", "p", "s", ":">>, <<"y", ".", "j", "p", "g">>),
                         CdnUrl(<<"h", "t", "t", "p", "s", ":">>, <<"v", ".", "w", "e", "b", "p">>) >>

(***************************************************************************)
(* Properties of validateProductUrl                                        *)
(***************************************************************************)
\* C18: for every URL string whose hostname is not smartstore.naver.com
\* (another site, brand.naver.com, a host that only begins with
\* smartstore.naver.com) validateProductUrl returns isValid = false.
C18_OnlySmartstoreHost ==
    (entry = "validateProductUrl" /\ result.applied /\ UrlConstructorAccepts(Trim(arg))
     /\ UrlHostname(Trim(arg)) # SmartstoreHost)
        => ~result.value.isValid

\* the path and query of a smartstore.naver.com URL string
IsSmartstoreUrlWithPath(str, paths) ==
    \E scheme \in {<<"h", "t", "t", "p", "s", ":", "/", "/">>, <<"h", "t", "t", "p", ":", "/", "/">>}, path \in paths :
        Trim(str) = scheme \o SmartstoreHost \o path

\* C19: for every smartstore.naver.com URL that is a store root or a
\* non-product path such as /store/categories/123, validateProductUrl
\* returns isValid = false with the error 'URL must contain a valid
\* product identifier'.
C19_NonProductRejected ==
    (entry = "validateProductUrl" /\ result.applied
     /\ IsSmartstoreUrlWithPath(arg, StoreRootPaths \cup NonProductPaths))
        => result.value = Invalid("URL must contain a valid product identifier")

(***************************************************************************)
(* Properties of RateLimitValidator                                        *)
(***************************************************************************)
\* the earlier calls of the key of call j whose window holds call j: call j
\* was made no later than their resetTime
EarlierInWindow(j) ==
    {k \in 1..(j - 1) : /\ limiter.returned[k].key = limiter.returned[j].key
                        /\ limiter.returned[j].time <= limiter.returned[k].resetTime}

GrantedBefore(j) == {k \in EarlierInWindow(j) : limiter.returned[k].isValid}

\* C20: for every key, between the start of the key's window and its
\* resetTime at most maxRequests calls of isAllowed return isValid = true;
\* every further call in that window returns isValid = false with the
\* error 'Rate limit exceeded' and remaining = 0; remaining is never
\* negative.
C20_RateLimitCap ==
    entry = "isAllowed" =>
        \A j \in 1..Len(limiter.returned) :
            /\ limiter.returned[j].remaining >= 0
            /\ limiter.returned[j].isValid =>
                  Cardinality(GrantedBefore(j)) < limiter.config.maxRequests
            /\ Cardinality(GrantedBefore(j)) >= limiter.config.maxRequests =>
                  /\ ~limiter.returned[j].isValid
                  /\ limiter.returned[j].error = "Rate limit exceeded"
                  /\ limiter.returned[j].remaining = 0

C20_Witness ==
    /\ entry = "isAllowed"
    /\ limiter.config.maxRequests = 2
    /\ Len(limiter.returned) = 4
    /\ \A j \in 1..4 : limiter.returned[j].key = "ip1"
    /\ limiter.returned[1].time < limiter.returned[3].time
    /\ limiter.returned[3].time = limiter.returned[1].resetTime
    /\ limiter.returned[1].isValid /\ limiter.returned[2].isValid
    /\ ~limiter.returned[3].isValid
    /\ limiter.returned[3].remaining = 0
    /\ limiter.returned[4].isValid

(***************************************************************************)
(* Properties of the retry schedule                                        *)
(***************************************************************************)
\* the latest response of the call was a 429
RateLimitedLast(c) ==
    calls[c].lastResp.kind = "response" /\ calls[c].lastResp.status = 429

\* the call is about to send the GET of an attempt after the first
BeforeRetryGet(c) == calls[c].pc = "get" /\ calls[c].attempt > 1

\* C21 (as stated): when attempt k received 429 and attempts remain, the
\* time slept between that response and the GET of attempt k + 1 is, jitter
\* aside, twice what the normal schedule sleeps before attempt k + 1, that
\* is 2 * retryDelay * (k + 1).
C21_ExtendedDelayDouble ==
    \A c \in CallIds :
        (BeforeRetryGet(c) /\ RateLimitedLast(c)) =>
            calls[c].baseSlept = 2 * (opts.retryDelay * calls[c].attempt)

\* C21 (amended): when attempt k received 429 and attempts remain, the call
\* sleeps the extended delay retryDelay * k * 2 and then the normal delay
\* retryDelay * (k + 1) of attempt k + 1, each with its own jitter below
\* 2000 ms, before the GET of attempt k + 1; a call never fails on a 429
\* while attempts remain.
C21_ExtendedThenBackoff ==
    \A c \in CallIds :
        RateLimitedLast(c) =>
            /\ BeforeRetryGet(c) =>
                  /\ calls[c].baseSlept = opts.retryDelay * (calls[c].attempt - 1) * 2
                                          + opts.retryDelay * calls[c].attempt
                  /\ calls[c].slept >= calls[c].baseSlept
                  /\ calls[c].slept < calls[c].baseSlept + 2 * JITTER_RANGE
            /\ CallFailed(c) => calls[c].attempt = opts.retries + 1

C21_Witness ==
    \E c \in CallIds :
        /\ BeforeRetryGet(c)
        /\ RateLimitedLast(c)
        /\ calls[c].attempt = 3
        /\ opts.retryDelay = DEFAULT_RETRY_DELAY
        /\ calls[c].baseSlept = 7 * DEFAULT_RETRY_DELAY

\* C22 (as stated): fetchProductPage does not sleep before attempt 1, and
\* before every attempt k > 1 (not following a 429, whose extended delay
\* comes on top) it sleeps d with
\* retryDelay * k <= d < retryDelay * k + 2 * retryDelay.
C22_BackoffJitterScaled ==
    \A c \in CallIds :
        /\ calls[c].attempt <= 1 => calls[c].sleeps = 0
        /\ (BeforeRetryGet(c) /\ ~RateLimitedLast(c)) =>
              /\ calls[c].slept >= opts.retryDelay * calls[c].attempt
              /\ calls[c].slept < opts.retryDelay * calls[c].attempt + 2 * opts.retryDelay

\* C22 (amended): fetchProductPage does not sleep before attempt 1, and
\* before every attempt k > 1 (not following a 429) it sleeps d with
\* retryDelay * k <= d < retryDelay * k + 2000, whatever retryDelay is.
C22_BackoffJitterFixed ==
    \A c \in CallIds :
        /\ calls[c].attempt <= 1 => calls[c].sleeps = 0
        /\ (BeforeRetryGet(c) /\ ~RateLimitedLast(c)) =>
              /\ calls[c].slept >= opts.retryDelay * calls[c].attempt
              /\ calls[c].slept < opts.retryDelay * calls[c].attempt + JITTER_RANGE

C22_Witness ==
    \E c \in CallIds :
        /\ BeforeRetryGet(c)
        /\ ~RateLimitedLast(c)
        /\ calls[c].attempt = 2
        /\ opts.retryDelay = 500
        /\ calls[c].slept >= 500 * 2 + 2 * 500

\* C30: fetchProductPage never sleeps after its last GET: once request
\* number retries + 1 is sent the call only waits for it and ends, a call
\* that has ended has slept nothing since its last request, and with
\* retries = 0 there is one request at most and no sleep at all.
C30_NoSleepAfterFinalAttempt ==
    \A c \in CallIds :
        /\ FetchEnded(c) => (calls[c].slept = 0 /\ calls[c].baseSlept = 0)
        /\ calls[c].gets = opts.retries + 1 =>
              (calls[c].pc = "inflight" \/ FetchEnded(c))
        /\ opts.retries = 0 => (calls[c].sleeps = 0 /\ calls[c].gets <= 1)

C30_Witness ==
    \E c \in CallIds :
        /\ calls[c].pc = "fetchThrown"
        /\ opts.retries = 1
        /\ opts.retryDelay = DEFAULT_RETRY_DELAY
        /\ calls[c].gets = 2
        /\ RateLimitedLast(c)
        /\ calls[c].error.statusCode = 429
        /\ calls[c].sleeps = 1

(***************************************************************************)
(* Properties of the delays of a batch                                     *)
(***************************************************************************)
\* list entry k was passed to scrapeProduct and that call has ended
Scraped(k) == itemStatus[k] \notin {0, -1}

\* the entries before k that were scraped
ScrapedBefore(k) == {j \in 1..(k - 1) : Scraped(j)}

\* the latest entry before k that was scraped
PreviousScraped(k) == CHOOSE j \in ScrapedBefore(k) : \A h \in ScrapedBefore(k) : h <= j

\* C23 (as stated): between the end of an item's scrape, however it ended,
\* and the start of the next item's scrape at least delayBetweenRequests
\* is slept, and nothing is slept after the last item.
C23_ThrottleEveryPair ==
    /\ \A k \in 1..Len(urls) :
          (Started(k) /\ ScrapedBefore(k) # {}) =>
              delayBefore[k] >= opts.delayBetweenRequests
    /\ (bpc = "done" /\ Len(urls) > 0 /\ Scraped(Len(urls))) => pendingDelay = 0

\* what the batch sleeps after the scrape of entry k when an entry follows
DelayAfterItem(k) ==
    IF itemStatus[k] = 200 THEN opts.delayBetweenRequests
    ELSE IF itemStatus[k] = 429 THEN 2 * opts.delayBetweenRequests
    ELSE 0

\* C23 (amended): between the end of an item's scrape and the start of the
\* next item's scrape the batch sleeps delayBetweenRequests when the item
\* succeeded, twice delayBetweenRequests when it failed with status 429,
\* and nothing when it failed with any other error; after the last list
\* entry it sleeps nothing, except twice delayBetweenRequests when that
\* entry failed with status 429.
C23_ThrottleAfterSuccessOr429 ==
    /\ \A k \in 1..Len(urls) :
          (Started(k) /\ ScrapedBefore(k) # {}) =>
              delayBefore[k] = DelayAfterItem(PreviousScraped(k))
    /\ (bpc = "done" /\ Len(urls) > 0 /\ Scraped(Len(urls))) =>
          pendingDelay = (IF itemStatus[Len(urls)] = 429
                          THEN 2 * opts.delayBetweenRequests ELSE 0)

C23_Witness ==
    /\ bpc = "done"
    /\ Len(urls) = 3
    /\ opts.delayBetweenRequests = DEFAULT_DELAY_BETWEEN_REQUESTS
    /\ itemStatus[1] = 403
    /\ delayBefore[2] = 0
    /\ itemStatus[2] = 200
    /\ delayBefore[3] = DEFAULT_DELAY_BETWEEN_REQUESTS
    /\ itemStatus[3] = 429
    /\ pendingDelay = 2 * DEFAULT_DELAY_BETWEEN_REQUESTS

(***************************************************************************)
(* Properties of a scraped record's price                                  *)
(***************************************************************************)
\* the page has no positive number in any candidate region and no price
\* meta tag
NoPriceOn(page) == CollectedValues(page) = {} /\ page.metaPrice = <<>>

\* validateProductData logged a warning about the missing price
PriceWarningLogged(c) ==
    \E k \in 1..Len(calls[c].warnings) : calls[c].warnings[k] = "No price information found"

\* C28: whenever extractPrice returns both original and discounted, both
\* are positive numbers collected from the candidate regions of the page
\* and discounted <= original.
C28_PriceOrdering ==
    (/\ entry = "extractPrice"
     /\ result.applied
     /\ result.value.original # Undefined
     /\ result.value.discounted # Undefined) =>
        /\ result.value.original.kind = "number"
        /\ result.value.discounted.kind = "number"
        /\ result.value.original.val \in CollectedValues(arg)
        /\ result.value.discounted.val \in CollectedValues(arg)
        /\ result.value.discounted.val > 0
        /\ result.value.discounted.val <= result.value.original.val

C28_Witness ==
    /\ entry = "extractPrice"
    /\ result.applied
    /\ Len(arg.priceTexts) = 2
    /\ result.value.original = Num(1000)
    /\ result.value.discounted = Num(30)

\* C24: when scrapeProduct returns the record of a page that has no price
\* in any candidate region and no price meta tag, original and discounted
\* are absent from the record and a warning about the missing price was
\* logged.
C24_MissingPriceLogged ==
    \A c \in CallIds :
        (calls[c].pc = "returned" /\ NoPriceOn(calls[c].data)) =>
            /\ calls[c].product.price.original = Undefined
            /\ calls[c].product.price.discounted = Undefined
            /\ PriceWarningLogged(c)

(***************************************************************************)
(* Properties of the identity cursor                                       *)
(***************************************************************************)
\* the step builds the headers of a request of call c
HeadersBuilt(c) ==
    \/ calls'[c].gets = calls[c].gets + 1
    \/ calls'[c].sessionGets = calls[c].sessionGets + 1

\* the step builds them for the session pre-warm, which passes no identity
SessionHeadersBuilt(c) == calls'[c].sessionGets = calls[c].sessionGets + 1

\* the step builds them without an explicit identity
SelectionMade(c) ==
    \/ SessionHeadersBuilt(c)
    \/ calls'[c].gets = calls[c].gets + 1 /\ ~opts.userAgent

CursorInRange == currentUserAgentIndex \in 0..(USER_AGENTS_LENGTH - 1)

CursorStep ==
    /\ \A c \in CallIds :
          /\ SelectionMade(c) =>
                /\ calls'[c].agent = USER_AGENTS[currentUserAgentIndex + 1]
                /\ currentUserAgentIndex' = (currentUserAgentIndex + 1) % 5
          /\ (HeadersBuilt(c) /\ ~SelectionMade(c)) =>
                /\ calls'[c].agent = CallerUserAgent
                /\ currentUserAgentIndex' = currentUserAgentIndex
    /\ (\A c \in CallIds : ~HeadersBuilt(c)) =>
          currentUserAgentIndex' = currentUserAgentIndex

\* C25: the cursor is always in 0..4; every header generation without an
\* explicit identity (one per fetch attempt, one per session pre-warm)
\* uses the pool entry at the cursor and advances the cursor by one modulo
\* 5; one with an explicit userAgent uses that identity and leaves the
\* cursor unchanged; and no other step of a call changes the cursor.
C25_RoundRobinCursor == []CursorInRange /\ [][CursorStep]_vars

C25_Witness ==
    /\ currentUserAgentIndex = 0
    /\ ~opts.userAgent
    /\ \E c \in CallIds : calls[c].agent = USER_AGENTS[5] /\ calls[c].gets = 2
    /\ \E c \in CallIds : calls[c].sessionGets = 1 /\ calls[c].gets = 2

\* the number of identities call c has taken from the pool
Selections(c) == calls[c].sessionGets + (IF opts.userAgent THEN 0 ELSE calls[c].gets)

RECURSIVE SelectionsUpTo(_)
SelectionsUpTo(n) == IF n = 0 THEN 0 ELSE Selections(n) + SelectionsUpTo(n - 1)

\* the number of identities taken from the pool by all calls together
TotalSelections == SelectionsUpTo(MaxUrls)

CursorCountsSelections == currentUserAgentIndex = TotalSelections % 5

NthSelectionGetsNthEntry ==
    \A c \in CallIds :
        SelectionMade(c) => calls'[c].agent = USER_AGENTS[(TotalSelections % 5) + 1]

\* C26: however concurrent scrapeProduct calls on the shared scraper
\* interleave, no cursor update is lost: after k selections in all the
\* cursor is k mod 5, and selection number k + 1, whichever call makes it,
\* receives pool entry k mod 5, so that selections that follow one another
\* in time receive consecutive entries.
C26_AtomicCursor == []CursorCountsSelections /\ [][NthSelectionGetsNthEntry]_vars

C26_Witness ==
    /\ TotalSelections = 6
    /\ currentUserAgentIndex = 1
    /\ calls[1].pc = "inflight" /\ calls[1].agent = USER_AGENTS[1] /\ calls[1].gets = 2
    /\ calls[2].pc = "inflight" /\ calls[2].agent = USER_AGENTS[5] /\ calls[2].gets = 2

(***************************************************************************)
(* Properties of the blocked-content heuristic                             *)
(***************************************************************************)
\* the latest response of the call is a non-error HTML response
HtmlResponseLast(c) ==
    /\ calls[c].lastResp.kind = "response"
    /\ calls[c].lastResp.status = 200
    /\ calls[c].lastResp.html

\* what parsing and validating the fetched page throws, or NoError
ExtractionError(c) ==
    LET parsed == parseProductData(calls[c].data, calls[c].url)
    IN  IF ~parsed.ok THEN parsed.error ELSE validateProductData(parsed.data)

\* C27: once a request is answered by a non-error HTML response, whatever
\* its body, fetchProductPage returns that body as a success, and
\* scrapeProduct ends as extraction and validation of that body alone
\* decide: it returns the parsed record, or throws the error they throw.
C27_BlockedContentOnlyLogged ==
    \A c \in CallIds :
        (HtmlResponseLast(c) /\ calls[c].pc # "inflight") =>
            /\ calls[c].pc \in {"fetchReturned", "returned", "thrown"}
            /\ calls[c].data = calls[c].lastResp.page
            /\ calls[c].pc = "thrown" => calls[c].error = ExtractionError(c)
            /\ calls[c].pc = "returned" =>
                  /\ ExtractionError(c) = NoError
                  /\ calls[c].product = parseProductData(calls[c].data, calls[c].url).data

(***************************************************************************)
(* Properties of RateLimitValidator across windows                         *)
(***************************************************************************)
\* the calls before call j that were made for the same key
SameKeyBefore(j) ==
    {k \in 1..(j - 1) : limiter.returned[k].key = limiter.returned[j].key}

\* the latest call before call j that was made for the same key
PreviousSameKey(j) == CHOOSE k \in SameKeyBefore(j) : \A h \in SameKeyBefore(j) : h <= k

\* call j relates to the previous call for its key, whatever calls for
\* other keys lie in between: inside the window the resetTime stays and the
\* count goes up by one; after the resetTime a fresh window starts with
\* count 1 and the call is allowed
FollowsPreviousSameKey(j) ==
    LET this == limiter.returned[j]
        prev == limiter.returned[PreviousSameKey(j)]
        maxRequests == limiter.config.maxRequests
    IN  IF this.time <= prev.resetTime
        THEN /\ this.resetTime = prev.resetTime
             /\ this.isValid = (prev.remaining > 0)
             /\ this.remaining = (IF prev.remaining > 0 THEN prev.remaining - 1 ELSE 0)
        ELSE /\ this.resetTime = this.time + limiter.config.windowMs
             /\ maxRequests >= 1 => (this.isValid /\ this.remaining = maxRequests - 1)

ReAdmission ==
    entry = "isAllowed" =>
        \A j \in 1..Len(limiter.returned) :
            SameKeyBefore(j) # {} => FollowsPreviousSameKey(j)

\* a call for one key leaves the entry of every other key as it was, or
\* removes it when its window ended more than windowMs ago
OtherKeysUntouched ==
    (entry = "isAllowed" /\ Len(limiter'.returned) = Len(limiter.returned) + 1) =>
        \A k \in Keys \ {limiter'.returned[Len(limiter'.returned)].key} :
            \/ limiter'.requests[k] = limiter.requests[k]
            \/ /\ limiter'.requests[k] = NoEntry
               /\ limiter.now > limiter.requests[k].resetTime + limiter.config.windowMs

\* C29: a call made inside its key's window, allowed or rejected, keeps
\* the key's resetTime and adds one to its count; calls for one key do not
\* change the count or resetTime another key's calls meet; and for
\* maxRequests >= 1 the first call for a key after its resetTime is
\* allowed and starts a fresh window with count 1, however many rejected
\* calls came before it.
C29_ReAdmission == []ReAdmission /\ [][OtherKeysUntouched]_vars

C29_Witness ==
    /\ entry = "isAllowed"
    /\ limiter.config.maxRequests = 1
    /\ Len(limiter.returned) = 4
    /\ limiter.returned[1].key = "ip1" /\ limiter.returned[1].isValid
    /\ limiter.returned[2].key = "ip1" /\ ~limiter.returned[2].isValid
    /\ limiter.returned[3].key = "ip2" /\ limiter.returned[3].isValid
    /\ limiter.returned[3].time > limiter.returned[1].time
    /\ limiter.returned[4].key = "ip1" /\ limiter.returned[4].isValid
    /\ limiter.returned[4].time > limiter.returned[1].resetTime
    /\ limiter.returned[4].resetTime = limiter.returned[4].time + limiter.config.windowMs
    /\ limiter.returned[4].remaining = 0

====
